---- MODULE Spec2Model ----
(***************************************************************************)
(* Model of metafile-codecov-bundle: the two-step upload client            *)
(* (upload.ts), the OIDC token fetch (providers/github.ts) and the         *)
(* metafile transform (transform.ts).                                      *)
(*                                                                         *)
(* JavaScript strings that the code builds from parts (template literals,  *)
(* JSON.stringify) are modelled as sequences of tokens, so "the message    *)
(* contains the status code" is a statement about the tokens.  Output      *)
(* paths, which the code inspects character by character, are sequences    *)
(* of one-character strings.                                               *)
(***************************************************************************)
EXTENDS Integers, Sequences, FiniteSets, TLC

VARIABLES
    \* ---- uploadBundleStats (upload.ts) ----
    options,      \* the UploadOptions of the invocation
    pc,           \* where the invocation is suspended
    frame,        \* "getPresignedUrl" or "putPayload": the caller of fetchWithRetry
    retries,      \* fetchWithRetry's retries parameter of the active frame
    presignedUrl, \* uploadBundleStats' const presignedUrl
    response,     \* the Response fetchWithRetry returned to getPresignedUrl
    outcome,      \* the promise uploadBundleStats returned
    \* ---- the fetcher and the timer ----
    calls,        \* the fetcher's log of requests
    responses,    \* what the fetcher answered, one entry per call
    delays,       \* the durations of the delay() calls made so far
    \* ---- fetchOidcToken (providers/github.ts) ----
    env,          \* the environment record passed to fetchOidcToken
    opc,          \* where fetchOidcToken is suspended
    oresponse,    \* the Response fetchOidcToken received
    token,        \* the promise fetchOidcToken returned
    \* ---- transformMetafile (transform.ts) ----
    metafile,     \* the Metafile passed to transformMetafile
    toptions,     \* the TransformOptions passed to transformMetafile
    disk,         \* the files readFileSync finds: file path -> content or error
    tpc,          \* "idle" before the call, "done" after it returned
    payload,      \* the OutputPayload transformMetafile returned
    \* ---- one call of a pure function (normalize.ts, compress.ts, github.ts) ----
    arg,          \* the arguments of the call
    cpc,          \* "idle" before the call, "done" after it returned
    ret,          \* what the call returned or threw
    \* ---- runUpload (cli.ts) ----
    rargs,        \* runUpload's arguments payload and retryDelayMs
    rpc,          \* where runUpload is suspended
    log,          \* the lines written with console.error
    rpromise,     \* the promise runUpload returned
    \* ---- a second invocation in the same process ----
    parked,       \* the locals of the uploadBundleStats invocation that is not running
    earlier       \* the arguments and the result of an earlier transformMetafile call

uploadVars == <<options, pc, frame, retries, presignedUrl, response, outcome>>

netVars == <<calls, responses, delays>>

oidcVars == <<env, opc, oresponse, token>>

transformVars == <<metafile, toptions, disk, tpc, payload>>

callVars == <<arg, cpc, ret>>

runVars == <<rargs, rpc, log, rpromise>>

againVars == <<parked, earlier>>

vars == <<uploadVars, netVars, oidcVars, transformVars, callVars, runVars, againVars>>

\* JavaScript's undefined, for optional strings
Undefined == "<undefined>"

\* ------------------------------------------------------------------------
\* upload.ts: constants
\* ------------------------------------------------------------------------
CODECOV_API_URL == "https://api.codecov.io/upload/bundle_analysis/v1"

\* A budget of one attempt more
MaxRetriesPlusOne == 3 + 1

MAX_RETRIES == 3

RETRY_DELAY_MS == 1000

\* ------------------------------------------------------------------------
\* Inputs of an upload
\* ------------------------------------------------------------------------
CustomApiUrl == "https://api.test.com/upload/bundle_analysis/v1"

PRESIGNED_URL == "https://storage.example.com/upload/presigned-abc"

OtherPresignedUrl == "https://storage.example.com/upload/presigned-xyz"

SERVICE_PARAMS ==
    [branch |-> "main", commit |-> "abc123", pr |-> "", service |-> "github-actions",
     slug |-> "owner:::repo::::", build |-> "12345",
     buildURL |-> "https://github.com/owner/repo/actions/runs/12345", job |-> "build"]

ServiceParamsSet ==
    {SERVICE_PARAMS,
     [SERVICE_PARAMS EXCEPT !.commit = "def456", !.pr = "42", !.branch = "topic"]}

Payloads == {<<"{\"version\":\"3\"}">>, <<"{}">>}

OidcTokens == {"test-jwt", "my-oidc-jwt"}

\* apiUrl and retryDelayMs are optional: a record either has the field or not
RequiredOptions == [payload : Payloads, oidcToken : OidcTokens, serviceParams : ServiceParamsSet]

WithField(r, name, value) ==
    [k \in DOMAIN r \cup {name} |-> IF k = name THEN value ELSE r[k]]

UploadOptionsSet ==
    LET withUrl == RequiredOptions \cup {WithField(r, "apiUrl", CustomApiUrl) : r \in RequiredOptions}
    IN  withUrl \cup {WithField(r, "retryDelayMs", 0) : r \in withUrl}

\* ------------------------------------------------------------------------
\* What a fetcher can answer: a Response, or a rejection
\* ------------------------------------------------------------------------
\* A response body: text that parses as a JSON object, given by its members,
\* or text that does not parse.
EmptyObject == [k \in {} |-> ""]

JsonBody(data) == [json |-> TRUE, data |-> data]

TextBody == [json |-> FALSE, data |-> EmptyObject]

\* data.<name> of a parsed object: undefined when the member is absent
Member(data, name) == IF name \in DOMAIN data THEN data[name] ELSE Undefined

\* !x of an optional string: undefined and "" are falsy
Falsy(x) == x = Undefined \/ x = ""

MkResponse(status, statusText, body) ==
    [status |-> status, statusText |-> statusText, body |-> body]

OkResponses ==
    {MkResponse(200, "OK", JsonBody([url |-> PRESIGNED_URL])),
     MkResponse(201, "Created", JsonBody([url |-> OtherPresignedUrl])),
     MkResponse(200, "", JsonBody(EmptyObject)),
     MkResponse(200, "OK", JsonBody([url |-> ""])),
     MkResponse(204, "No Content", TextBody)}

FailResponses ==
    {MkResponse(403, "Forbidden", TextBody),
     MkResponse(500, "", TextBody),
     MkResponse(302, "Found", JsonBody([url |-> PRESIGNED_URL]))}

Responses == OkResponses \cup FailResponses

\* A thrown value: an Error with a message, or a value that is no Error.
MkError(message) == [kind |-> "Error", message |-> message, num |-> 0]

ThrownString(s) == [kind |-> "string", message |-> <<s>>, num |-> 0]

ThrownNumber(n) == [kind |-> "number", message |-> <<>>, num |-> n]

Rejections == {MkError(<<"fetch failed">>), ThrownString("boom"), ThrownNumber(42)}

\* String(err) of a thrown value
String(err) == IF err.kind = "number" THEN <<ToString(err.num)>> ELSE err.message

\* Response.ok: the status is in the range 200..299
ok(resp) == resp.status >= 200 /\ resp.status <= 299

\* ------------------------------------------------------------------------
\* The fetcher of the tests: it logs each call and answers
\* ------------------------------------------------------------------------
Request(url, method, headers, body) ==
    [url |-> url, method |-> method, headers |-> headers, body |-> body]

\* JSON.stringify of the service parameters: the keys in insertion order, each
\* followed by its value
JSONstringify(p) ==
    <<"{", "branch", p.branch, "commit", p.commit, "pr", p.pr, "service", p.service,
      "slug", p.slug, "build", p.build, "buildURL", p.buildURL, "job", p.job, "}">>

\* JSON.parse of such a text: the value that follows each key
JSONparse(text) ==
    [k \in {text[2 * i] : i \in 1..((Len(text) - 2) \div 2)} |->
        text[1 + CHOOSE j \in 1..Len(text) : text[j] = k /\ j % 2 = 0]]

\* ------------------------------------------------------------------------
\* upload.ts: fetchWithRetry, getPresignedUrl, putPayload, uploadBundleStats
\* ------------------------------------------------------------------------
\* options.apiUrl ?? CODECOV_API_URL
apiUrl(opts) == IF "apiUrl" \in DOMAIN opts THEN opts.apiUrl ELSE CODECOV_API_URL

\* A retry delay that does not look at the option
retryDelayDefaultOnly(opts) == RETRY_DELAY_MS

\* options.retryDelayMs ?? RETRY_DELAY_MS
retryDelay(opts) ==
    IF "retryDelayMs" \in DOMAIN opts THEN opts.retryDelayMs ELSE RETRY_DELAY_MS

\* The request getPresignedUrl hands to fetchWithRetry
PostRequest(opts) ==
    Request(apiUrl(opts), "POST",
            [ContentType |-> "application/json",
             Authorization |-> <<"token ", opts.oidcToken>>],
            JSONstringify(opts.serviceParams))

\* putPayload encoding the payload string once more (JSON.stringify of a string)
PutRequestReencoded(url, text) ==
    Request(url, "PUT", [ContentType |-> "application/json"],
            <<"\"">> \o text \o <<"\"">>)

\* The request putPayload hands to fetchWithRetry
PutRequest(url, text) ==
    Request(url, "PUT", [ContentType |-> "application/json"], text)

\* The request of the active frame
CurrentRequest(f, opts, url) ==
    IF f = "getPresignedUrl" THEN PostRequest(opts) ELSE PutRequest(url, opts.payload)

\* fetchWithRetry after the fetcher answered: return the response, throw, or
\* delay and call itself with retries - 1
RequestFailed(resp) ==
    MkError(<<"Request failed: ", ToString(resp.status), " ", resp.statusText>>)

\* fetchWithRetry with the budget test off by one: a fourth attempt
fetchWithRetryOffByOne(resp, n) ==
    IF ok(resp) THEN [do |-> "return"]
    ELSE IF n <= 0 THEN [do |-> "throw", err |-> RequestFailed(resp)]
    ELSE [do |-> "delay"]

\* fetchWithRetry testing the budget before the status: the last attempt
\* fails even when it is answered ok
fetchWithRetryBudgetFirst(resp, n) ==
    IF n <= 1 THEN [do |-> "throw", err |-> RequestFailed(resp)]
    ELSE IF ok(resp) THEN [do |-> "return"]
    ELSE [do |-> "delay"]

\* fetchWithRetry without the test of the budget: it retries until an answer
\* is ok
fetchWithRetryUnbounded(resp, n) ==
    IF ok(resp) THEN [do |-> "return"] ELSE [do |-> "delay"]

fetchWithRetry(resp, n) ==
    IF ok(resp) THEN [do |-> "return"]
    ELSE IF n <= 1 THEN [do |-> "throw", err |-> RequestFailed(resp)]
    ELSE [do |-> "delay"]

\* getPresignedUrl after response.json(): the url, or a throw
MissingUrl == MkError(<<"Presigned URL response missing 'url' field">>)

JsonSyntaxError == MkError(<<"Failed to parse JSON">>)

\* getPresignedUrl without the test of data.url
getPresignedUrlUnchecked(resp) ==
    IF ~resp.body.json THEN [do |-> "throw", err |-> JsonSyntaxError]
    ELSE [do |-> "return", url |-> Member(resp.body.data, "url")]

getPresignedUrl(resp) ==
    IF ~resp.body.json THEN [do |-> "throw", err |-> JsonSyntaxError]
    ELSE IF Falsy(Member(resp.body.data, "url"))
         THEN [do |-> "throw", err |-> MissingUrl]
    ELSE [do |-> "return", url |-> resp.body.data.url]

\* A catch clause that handles Error instances only and rethrows the rest
CatchErrorsOnly(err) ==
    IF err.kind = "Error"
    THEN [state |-> "fulfilled", value |-> [success |-> FALSE, error |-> err.message]]
    ELSE [state |-> "rejected", value |-> [success |-> FALSE, error |-> String(err)]]

\* A catch clause that reports a fixed text in the place of the message
CatchWithFixedText(err) ==
    [state |-> "fulfilled", value |-> [success |-> FALSE, error |-> <<"Upload failed">>]]

\* uploadBundleStats' catch clause: every throw becomes a result
Catch(err) ==
    [state |-> "fulfilled",
     value |-> [success |-> FALSE,
                error |-> IF err.kind = "Error" THEN err.message ELSE String(err)]]

\* A return after putPayload that carries the url in the failure's member too
SuccessWithError(url) ==
    [state |-> "fulfilled",
     value |-> [success |-> TRUE, presignedUrl |-> url, error |-> <<>>]]

\* uploadBundleStats' return after putPayload
Success(url) ==
    [state |-> "fulfilled", value |-> [success |-> TRUE, presignedUrl |-> url]]

Pending == [state |-> "pending"]

NoResponse == MkResponse(0, "", TextBody)

\* Nothing has been requested and no timer has run
NetInit ==
    /\ calls = <<>>
    /\ responses = <<>>
    /\ delays = <<>>

\* uploadBundleStats is about to be called with some options (pc = "idle"),
\* or is not part of the run (pc = "off")
UploadStart(at, optionSet) ==
    /\ options \in optionSet
    /\ pc = at
    /\ frame = "none"
    /\ retries = 0
    /\ presignedUrl = Undefined
    /\ response = NoResponse
    /\ outcome = Pending

UploadInit == UploadStart("idle", UploadOptionsSet)

UploadOff == UploadStart("off", {CHOOSE o \in UploadOptionsSet : TRUE})

\* The call of uploadBundleStats: it runs into getPresignedUrl and
\* fetchWithRetry, which calls the fetcher and awaits it.
uploadBundleStats ==
    /\ pc = "idle"
    /\ frame' = "getPresignedUrl"
    /\ retries' = MAX_RETRIES
    /\ calls' = Append(calls, PostRequest(options))
    /\ pc' = "awaitFetcher"
    /\ UNCHANGED <<options, presignedUrl, response, outcome, responses, delays>>
    /\ UNCHANGED <<oidcVars, transformVars, callVars, runVars, againVars>>

\* The fetcher's promise resolves with a response.
FetcherResolves ==
    /\ pc = "awaitFetcher"
    /\ \E resp \in Responses :
        LET step == fetchWithRetry(resp, retries)
        IN  /\ responses' = Append(responses, [settled |-> "resolved", response |-> resp])
            /\ IF step.do = "return" /\ frame = "getPresignedUrl"
               THEN /\ response' = resp
                    /\ pc' = "awaitJson"
                    /\ outcome' = outcome
               ELSE IF step.do = "return"
               THEN /\ pc' = "done"
                    /\ outcome' = Success(presignedUrl)
                    /\ response' = response
               ELSE IF step.do = "throw"
               THEN /\ pc' = "done"
                    /\ outcome' = Catch(step.err)
                    /\ response' = response
               ELSE /\ pc' = "awaitDelay"
                    /\ outcome' = outcome
                    /\ response' = response
    /\ UNCHANGED <<options, frame, retries, presignedUrl, calls, delays>>
    /\ UNCHANGED <<oidcVars, transformVars, callVars, runVars, againVars>>

\* The fetcher's promise rejects: fetchWithRetry has no catch, the rejection
\* reaches uploadBundleStats' catch clause.
FetcherRejects ==
    /\ pc = "awaitFetcher"
    /\ \E err \in Rejections :
        /\ responses' = Append(responses, [settled |-> "rejected", error |-> err])
        /\ outcome' = Catch(err)
    /\ pc' = "done"
    /\ UNCHANGED <<options, frame, retries, presignedUrl, response, calls, delays>>
    /\ UNCHANGED <<oidcVars, transformVars, callVars, runVars, againVars>>

\* delay(delayMs) resolves: fetchWithRetry calls itself with retries - 1 and
\* calls the fetcher again.
DelayElapses ==
    /\ pc = "awaitDelay"
    /\ delays' = Append(delays, retryDelay(options))
    /\ retries' = retries - 1
    /\ calls' = Append(calls, CurrentRequest(frame, options, presignedUrl))
    /\ pc' = "awaitFetcher"
    /\ UNCHANGED <<options, frame, presignedUrl, response, outcome, responses>>
    /\ UNCHANGED <<oidcVars, transformVars, callVars, runVars, againVars>>

\* response.json() settles in getPresignedUrl: with a url, uploadBundleStats
\* goes on to putPayload, whose fetchWithRetry calls the fetcher.
JsonSettles ==
    /\ pc = "awaitJson"
    /\ LET got == getPresignedUrl(response)
       IN  IF got.do = "return"
           THEN /\ presignedUrl' = got.url
                /\ frame' = "putPayload"
                /\ retries' = MAX_RETRIES
                /\ calls' = Append(calls, PutRequest(got.url, options.payload))
                /\ pc' = "awaitFetcher"
                /\ outcome' = outcome
           ELSE /\ pc' = "done"
                /\ outcome' = Catch(got.err)
                /\ UNCHANGED <<presignedUrl, frame, retries, calls>>
    /\ UNCHANGED <<options, response, responses, delays>>
    /\ UNCHANGED <<oidcVars, transformVars, callVars, runVars, againVars>>

\* ------------------------------------------------------------------------
\* Properties of uploadBundleStats
\* ------------------------------------------------------------------------
Contains(message, part) == \E i \in DOMAIN message : message[i] = part

IsMessage(x) == x \in Seq(STRING) /\ Len(x) > 0

Index(method) == {i \in DOMAIN calls : calls[i].method = method}

Posts == Cardinality(Index("POST"))

Puts == Cardinality(Index("PUT"))

Answered(i) == i \in DOMAIN responses /\ responses[i].settled = "resolved"

OkAt(i) == Answered(i) /\ ok(responses[i].response)

FailedAt(i) == Answered(i) /\ ~ok(responses[i].response)

\* the body of answer i is JSON with a usable url
UrlAt(i) ==
    /\ responses[i].response.body.json
    /\ "url" \in DOMAIN responses[i].response.body.data
    /\ responses[i].response.body.data.url # ""

Failed == outcome.state = "fulfilled" /\ ~outcome.value.success

Succeeded == outcome.state = "fulfilled" /\ outcome.value.success

\* C1: when every answer to the presigned-URL POST is non-ok, the call
\* resolves to {success: false, error} with the status code of the last
\* answer in error, after exactly 3 POSTs to the API URL and no PUT.
C1_AllPostsFail ==
    (pc = "done" /\ \A i \in DOMAIN responses : FailedAt(i)) =>
        /\ Failed
        /\ DOMAIN outcome.value = {"success", "error"}
        /\ Contains(outcome.value.error,
                    ToString(responses[Len(responses)].response.status))
        /\ Len(calls) = 3
        /\ \A i \in DOMAIN calls :
                calls[i].method = "POST" /\ calls[i].url = apiUrl(options)
        /\ Puts = 0

C1_Witness ==
    /\ pc = "done"
    /\ Len(responses) = 3
    /\ \A i \in DOMAIN responses : FailedAt(i)
    /\ responses[1].response.status = 500
    /\ responses[3].response.status = 403
    /\ outcome.value.error = <<"Request failed: ", "403", " ", "Forbidden">>

\* C2: in each phase an ok answer ends the phase: after k - 1 non-ok answers
\* and an ok one (k <= 3) no further request of the phase is made and the
\* phase succeeds (phase 1 goes on to the PUT when the answer carries a url,
\* phase 2 yields success: true); a successful upload made exactly k1 + k2
\* fetcher calls, k1 POSTs and k2 PUTs, of which only the last of each was
\* answered ok.
C2_RetryThenSuccess ==
    /\ \A i \in DOMAIN responses : OkAt(i) =>
            \A j \in DOMAIN calls : j > i => calls[j].method # calls[i].method
    /\ \A i \in DOMAIN responses :
            (OkAt(i) /\ calls[i].method = "PUT") =>
                (pc = "done" /\ Succeeded /\ i = Len(calls))
    /\ \A i \in DOMAIN responses :
            (OkAt(i) /\ calls[i].method = "POST" /\ UrlAt(i) /\ pc # "awaitJson") =>
                (Len(calls) > i /\ calls[i + 1].method = "PUT")
    /\ Succeeded =>
            /\ Posts \in 1..3 /\ Puts \in 1..3
            /\ Len(calls) = Posts + Puts
            /\ Len(responses) = Len(calls)
            /\ \A i \in DOMAIN responses :
                    IF i = Posts \/ i = Posts + Puts THEN OkAt(i) ELSE FailedAt(i)

C2_Witness ==
    /\ Succeeded
    /\ Posts = 2 /\ Puts = 3
    /\ Len(calls) = 5
    /\ FailedAt(1) /\ OkAt(2) /\ FailedAt(3) /\ FailedAt(4) /\ OkAt(5)

\* C3: uploadBundleStats never rejects: retry exhaustion, a rejecting
\* fetcher, an unparsable body and a missing url each resolve the promise
\* to {success: false, error: <message string>}.
LastFailure ==
    /\ responses # <<>>
    /\ LET n == Len(responses)
       IN  \/ responses[n].settled = "rejected"
           \/ FailedAt(n)
           \/ OkAt(n) /\ calls[n].method = "POST" /\ ~UrlAt(n)

C3_NeverRejects ==
    /\ outcome.state \in {"pending", "fulfilled"}
    /\ pc = "done" <=> outcome.state = "fulfilled"
    /\ (pc = "done" /\ LastFailure) =>
            /\ DOMAIN outcome.value = {"success", "error"}
            /\ outcome.value.success = FALSE
            /\ IsMessage(outcome.value.error)

C3_Witness ==
    /\ pc = "done"
    /\ Len(responses) = 2
    /\ calls[2].method = "PUT"
    /\ responses[2].settled = "rejected"
    /\ responses[2].error = ThrownNumber(42)
    /\ outcome = [state |-> "fulfilled", value |-> [success |-> FALSE, error |-> <<"42">>]]

\* C4: an ok answer to the POST whose JSON body has no url is not retried:
\* it is the last request of the upload, no PUT is ever issued and the
\* result is the "missing 'url' field" failure.
NoUrlAt(i) ==
    /\ OkAt(i)
    /\ calls[i].method = "POST"
    /\ responses[i].response.body.json
    /\ \/ "url" \notin DOMAIN responses[i].response.body.data
       \/ responses[i].response.body.data.url = ""

C4_MissingUrlNotRetried ==
    \A i \in DOMAIN responses : NoUrlAt(i) =>
        /\ Len(calls) = i
        /\ Puts = 0
        /\ pc \in {"awaitJson", "done"}
        /\ pc = "done" =>
                outcome = [state |-> "fulfilled",
                           value |-> [success |-> FALSE,
                                      error |-> <<"Presigned URL response missing 'url' field">>]]

C4_Witness ==
    /\ pc = "done"
    /\ Len(calls) = 2
    /\ FailedAt(1)
    /\ NoUrlAt(2)
    /\ "url" \notin DOMAIN responses[2].response.body.data

\* C5: all POSTs precede all PUTs; a PUT is issued only after a POST was
\* answered ok with a url, goes to exactly that url and carries the caller's
\* payload unchanged; every POST goes to the API URL with the header
\* Authorization: token <oidcToken> and the JSON-encoded service parameters.
C5_TwoPhaseOrdering ==
    /\ \A i \in DOMAIN calls : calls[i].method \in {"POST", "PUT"}
    /\ \A i \in Index("PUT") : \A j \in Index("POST") : j < i
    /\ \A i \in Index("PUT") :
            /\ OkAt(Posts) /\ UrlAt(Posts)
            /\ calls[i].url = responses[Posts].response.body.data.url
            /\ calls[i].body = options.payload
            /\ calls[i].headers = [ContentType |-> "application/json"]
    /\ \A i \in Index("POST") :
            /\ calls[i].url = apiUrl(options)
            /\ calls[i].headers.Authorization = <<"token ", options.oidcToken>>
            /\ calls[i].headers.ContentType = "application/json"
            /\ JSONparse(calls[i].body) = options.serviceParams

C5_Witness ==
    /\ Posts = 2 /\ Puts = 2
    /\ calls[1].method = "POST" /\ calls[2].method = "POST"
    /\ calls[3].method = "PUT" /\ calls[4].method = "PUT"
    /\ calls[4].url = OtherPresignedUrl
    /\ calls[4].body = options.payload
    /\ JSONparse(calls[2].body).commit = "def456"


\* ------------------------------------------------------------------------
\* providers/github.ts: fetchOidcToken
\* ------------------------------------------------------------------------
OIDC_AUDIENCE == "https://codecov.io"

TokenRequestUrl == "https://token.actions.githubusercontent.com/id?api-version=1"

OtherTokenRequestUrl == "https://example.com"

\* The environment records: a variable is undefined, empty or set
OidcEnvSet ==
    [ACTIONS_ID_TOKEN_REQUEST_URL : {Undefined, "", TokenRequestUrl, OtherTokenRequestUrl},
     ACTIONS_RUNTIME_TOKEN : {Undefined, "", "runtime-token"},
     ACTIONS_ID_TOKEN_REQUEST_TOKEN : {Undefined, "runtime-bearer-token"}]

TokenResponses ==
    {MkResponse(200, "OK", JsonBody([value |-> "fake-jwt-token"])),
     MkResponse(200, "", JsonBody([value |-> "other-jwt"])),
     MkResponse(200, "OK", JsonBody(EmptyObject)),
     MkResponse(200, "OK", JsonBody([value |-> ""])),
     MkResponse(200, "OK", TextBody),
     MkResponse(403, "Forbidden", TextBody),
     MkResponse(500, "", TextBody),
     MkResponse(503, "Service Unavailable", JsonBody([value |-> "fake-jwt-token"])),
     MkResponse(302, "Found", JsonBody([value |-> "fake-jwt-token"]))}

\* A request without a body, as the fetcher logs it
NoBody == <<>>

\* The request fetchOidcToken makes: no method (GET), only the bearer header
TokenRequest(requestUrl, runtimeToken) ==
    Request(<<requestUrl, "&audience=", OIDC_AUDIENCE>>, "GET",
            [Authorization |-> <<"Bearer ", runtimeToken>>], NoBody)

Rejected(err) == [state |-> "rejected", error |-> err]

Fulfilled(value) == [state |-> "fulfilled", value |-> value]

UrlNotSet ==
    MkError(<<"ACTIONS_ID_TOKEN_REQUEST_URL is not set",
              ". Ensure the workflow has 'permissions: id-token: write'.">>)

RuntimeTokenNotSet == MkError(<<"ACTIONS_RUNTIME_TOKEN is not set">>)

TokenRequestFailed(resp) ==
    MkError(<<"OIDC token request failed: ", ToString(resp.status), " ", resp.statusText>>)

MissingValue == MkError(<<"OIDC token response missing 'value' field">>)

\* fetchOidcToken up to its request: the configuration error, if any
oidcConfigError(e) ==
    IF Falsy(e.ACTIONS_ID_TOKEN_REQUEST_URL) THEN [do |-> "throw", err |-> UrlNotSet]
    ELSE IF Falsy(e.ACTIONS_RUNTIME_TOKEN) THEN [do |-> "throw", err |-> RuntimeTokenNotSet]
    ELSE [do |-> "fetch",
          request |-> TokenRequest(e.ACTIONS_ID_TOKEN_REQUEST_URL, e.ACTIONS_RUNTIME_TOKEN)]

\* A status test that lets redirects through
oidcAfterResponseBelow400(resp) ==
    IF resp.status >= 400 THEN [do |-> "throw", err |-> TokenRequestFailed(resp)]
    ELSE [do |-> "json"]

\* fetchOidcToken after the fetcher answered: throw on a non-ok status
oidcAfterResponse(resp) ==
    IF ~ok(resp) THEN [do |-> "throw", err |-> TokenRequestFailed(resp)]
    ELSE [do |-> "json"]

\* fetchOidcToken after response.json()
oidcAfterJson(resp) ==
    IF ~resp.body.json THEN [do |-> "throw", err |-> JsonSyntaxError]
    ELSE IF Falsy(Member(resp.body.data, "value"))
         THEN [do |-> "throw", err |-> MissingValue]
    ELSE [do |-> "return", value |-> resp.body.data.value]

OidcStart(at, envSet) ==
    /\ env \in envSet
    /\ opc = at
    /\ oresponse = NoResponse
    /\ token = Pending

OidcInit == OidcStart("idle", OidcEnvSet)

OidcOff == OidcStart("off", {CHOOSE e \in OidcEnvSet : TRUE})

\* The call of fetchOidcToken: it throws on a missing variable, else calls
\* the fetcher and awaits it.
fetchOidcToken ==
    /\ opc = "idle"
    /\ LET step == oidcConfigError(env)
       IN  IF step.do = "throw"
           THEN /\ token' = Rejected(step.err)
                /\ opc' = "done"
                /\ calls' = calls
           ELSE /\ calls' = Append(calls, step.request)
                /\ opc' = "awaitFetcher"
                /\ token' = token
    /\ UNCHANGED <<env, oresponse, responses, delays>>
    /\ UNCHANGED <<uploadVars, transformVars, callVars, runVars, againVars>>

\* The fetcher's promise resolves with a response.
OidcFetcherResolves ==
    /\ opc = "awaitFetcher"
    /\ \E resp \in TokenResponses :
        LET step == oidcAfterResponse(resp)
        IN  /\ responses' = Append(responses, [settled |-> "resolved", response |-> resp])
            /\ IF step.do = "throw"
               THEN /\ token' = Rejected(step.err)
                    /\ opc' = "done"
                    /\ oresponse' = oresponse
               ELSE /\ oresponse' = resp
                    /\ opc' = "awaitJson"
                    /\ token' = token
    /\ UNCHANGED <<env, calls, delays>>
    /\ UNCHANGED <<uploadVars, transformVars, callVars, runVars, againVars>>

\* The fetcher's promise rejects: fetchOidcToken rejects with the same value.
OidcFetcherRejects ==
    /\ opc = "awaitFetcher"
    /\ \E err \in Rejections :
        /\ responses' = Append(responses, [settled |-> "rejected", error |-> err])
        /\ token' = Rejected(err)
    /\ opc' = "done"
    /\ UNCHANGED <<env, oresponse, calls, delays>>
    /\ UNCHANGED <<uploadVars, transformVars, callVars, runVars, againVars>>

\* response.json() settles.
OidcJsonSettles ==
    /\ opc = "awaitJson"
    /\ LET step == oidcAfterJson(oresponse)
       IN  token' = IF step.do = "throw" THEN Rejected(step.err) ELSE Fulfilled(step.value)
    /\ opc' = "done"
    /\ UNCHANGED <<env, oresponse, calls, responses, delays>>
    /\ UNCHANGED <<uploadVars, transformVars, callVars, runVars, againVars>>

\* C6 (as amended): a non-2xx status answering the token request is a hard
\* failure: fetchOidcToken has made exactly one request, waits for no delay,
\* makes no further request and rejects with "OIDC token request failed:
\* <status> <statusText>".
C6_TokenFailureIsFinal ==
    FailedAt(1) =>
        /\ opc = "done"
        /\ Len(calls) = 1
        /\ delays = <<>>
        /\ token = Rejected(MkError(<<"OIDC token request failed: ",
                                      ToString(responses[1].response.status), " ",
                                      responses[1].response.statusText>>))

C6_Witness ==
    /\ FailedAt(1)
    /\ responses[1].response.status = 503
    /\ opc = "done"
    /\ token.state = "rejected"
    /\ Contains(token.error.message, "503")
    /\ Contains(token.error.message, "Service Unavailable")

\* C6 (as claimed): a non-2xx status answering the token request is retried;
\* the request-failure error surfaces only once the budget of MAX_RETRIES
\* attempts is used up, with a delay between the attempts.
C6_TokenRequestRetried ==
    (opc = "done" /\ responses # <<>> /\ FailedAt(Len(responses))) =>
        /\ Len(calls) = MAX_RETRIES
        /\ Len(delays) = MAX_RETRIES - 1

\* ------------------------------------------------------------------------
\* transform.ts: transformMetafile
\* ------------------------------------------------------------------------
\* Strings the transform takes apart (output paths, entry points) are
\* sequences of characters.
EndsWith(s, suffix) ==
    /\ Len(s) >= Len(suffix)
    /\ SubSeq(s, Len(s) - Len(suffix) + 1, Len(s)) = suffix

\* The last position of character c in s, 0 when there is none
LastIndexOf(s, c) ==
    IF \E i \in DOMAIN s : s[i] = c
    THEN CHOOSE i \in DOMAIN s : s[i] = c /\ \A j \in DOMAIN s : s[j] = c => j <= i
    ELSE 0

RECURSIVE StripTrailingSlashes(_)
StripTrailingSlashes(s) ==
    IF s # <<>> /\ s[Len(s)] = "/" THEN StripTrailingSlashes(SubSeq(s, 1, Len(s) - 1))
    ELSE s

\* node:path basename: the part after the last "/", trailing slashes ignored
basename(p) ==
    LET q == StripTrailingSlashes(p)
    IN  SubSeq(q, LastIndexOf(q, "/") + 1, Len(q))

\* .replace(/\.[^.]+$/, ""): drop the last "." and what follows it, when
\* something follows it
stripExtension(s) ==
    LET dot == LastIndexOf(s, ".")
    IN  IF dot > 0 /\ dot < Len(s) THEN SubSeq(s, 1, dot - 1) ELSE s

\* The decimal digits of a number, as `${i}` writes them
RECURSIVE DecimalChars(_)
DecimalChars(n) ==
    IF n < 10 THEN <<ToString(n)>> ELSE DecimalChars(n \div 10) \o <<ToString(n % 10)>>

\* `${i}-${outputPath}`
UniqueId(i, outputPath) == DecimalChars(i) \o <<"-">> \o outputPath

\* A value of type number | null is a record with one member: null, or the
\* number
Null == [null |-> TRUE]

Number(n) == [number |-> n]

\* ------------------------------------------------------------------------
\* node:path (posix): dirname, normalize, join, resolve
\* ------------------------------------------------------------------------
\* The segments of a path between its "/" separators, empty ones included
RECURSIVE Split(_)
Split(p) ==
    IF \A i \in DOMAIN p : p[i] # "/" THEN <<p>>
    ELSE LET slash == CHOOSE i \in DOMAIN p : p[i] = "/" /\ \A j \in 1..(i - 1) : p[j] # "/"
         IN  <<SubSeq(p, 1, slash - 1)>> \o Split(SubSeq(p, slash + 1, Len(p)))

\* The segments joined with "/"
RECURSIVE JoinSegments(_)
JoinSegments(segments) ==
    IF segments = <<>> THEN <<>>
    ELSE IF Len(segments) = 1 THEN segments[1]
    ELSE segments[1] \o <<"/">> \o JoinSegments(Tail(segments))

\* normalizeString's walk over the segments: empty and "." segments are
\* dropped, ".." removes the segment before it, or stays when there is none
\* and the path may climb above its root
RECURSIVE Resolved(_, _, _)
Resolved(segments, kept, allowAboveRoot) ==
    IF segments = <<>> THEN kept
    ELSE LET segment == Head(segments)
             rest == Tail(segments)
         IN  IF segment = <<>> \/ segment = <<".">>
             THEN Resolved(rest, kept, allowAboveRoot)
             ELSE IF segment = <<".", ".">>
             THEN IF kept # <<>> /\ kept[Len(kept)] # <<".", ".">>
                  THEN Resolved(rest, SubSeq(kept, 1, Len(kept) - 1), allowAboveRoot)
                  ELSE IF allowAboveRoot
                  THEN Resolved(rest, Append(kept, segment), allowAboveRoot)
                  ELSE Resolved(rest, kept, allowAboveRoot)
             ELSE Resolved(rest, Append(kept, segment), allowAboveRoot)

normalizeString(p, allowAboveRoot) == JoinSegments(Resolved(Split(p), <<>>, allowAboveRoot))

isAbsolute(p) == p # <<>> /\ p[1] = "/"

\* path.normalize
normalize(p) ==
    IF p = <<>> THEN <<".">>
    ELSE LET trailingSeparator == p[Len(p)] = "/"
             body == normalizeString(p, ~isAbsolute(p))
         IN  IF body = <<>>
             THEN (IF isAbsolute(p) THEN <<"/">>
                   ELSE IF trailingSeparator THEN <<".", "/">> ELSE <<".">>)
             ELSE (IF isAbsolute(p) THEN <<"/">> ELSE <<>>) \o body
                  \o (IF trailingSeparator THEN <<"/">> ELSE <<>>)

\* A join that puts "/" between the parts and does not normalize
joinUnnormalized(a, b) == a \o <<"/">> \o b

\* path.join of two parts: the non-empty ones joined with "/", normalized
join(a, b) ==
    IF a = <<>> /\ b = <<>> THEN <<".">>
    ELSE IF a = <<>> THEN normalize(b)
    ELSE IF b = <<>> THEN normalize(a)
    ELSE normalize(a \o <<"/">> \o b)

\* process.cwd()
Cwd == <<"/", "w">>

\* path.resolve of one part: absolute, normalized, no trailing separator
resolve(p) ==
    LET from == IF isAbsolute(p) THEN p ELSE Cwd \o <<"/">> \o p
    IN  <<"/">> \o normalizeString(from, FALSE)

\* path.dirname: what precedes the last separator that has a name after it
dirname(p) ==
    IF p = <<>> THEN <<".">>
    ELSE LET ends == {i \in 2..Len(p) :
                         /\ p[i] = "/"
                         /\ \E j \in (i + 1)..Len(p) : p[j] # "/"}
         IN  IF ends = {} THEN (IF isAbsolute(p) THEN <<"/">> ELSE <<".">>)
             ELSE LET end == CHOOSE i \in ends : \A j \in ends : j <= i
                  IN  IF isAbsolute(p) /\ end = 2 THEN <<"/", "/">>
                      ELSE SubSeq(p, 1, end - 1)

\* ------------------------------------------------------------------------
\* normalize.ts: normalizeAssetName
\* ------------------------------------------------------------------------
Digits == {"0", "1", "2", "3", "4", "5", "6", "7", "8", "9"}

LowerLetters ==
    {"a", "b", "c", "d", "e", "f", "g", "h", "i", "j", "k", "l", "m",
     "n", "o", "p", "q", "r", "s", "t", "u", "v", "w", "x", "y", "z"}

UpperLetters ==
    {"A", "B", "C", "D", "E", "F", "G", "H", "I", "J", "K", "L", "M",
     "N", "O", "P", "Q", "R", "S", "T", "U", "V", "W", "X", "Y", "Z"}

\* [a-f0-9] under the i flag
IsHex(c) == c \in Digits \cup {"a", "b", "c", "d", "e", "f", "A", "B", "C", "D", "E", "F"}

\* [a-z] under the i flag
IsLetter(c) == c \in LowerLetters \cup UpperLetters

\* The {8,} of both patterns
MinHashLength == 8

\* Where /([-.])[a-f0-9]{8,}(\.[a-z]+)$/i matches in base: the position of the
\* delimiter and the position of the "." of the extension.  The letters of
\* the extension hold no ".", and the delimiter is no hex character, so there
\* is at most one match.
HashMatches(base) ==
    {m \in (DOMAIN base) \X (DOMAIN base) :
        /\ base[m[1]] \in {"-", "."}
        /\ m[2] - m[1] - 1 >= MinHashLength
        /\ \A i \in (m[1] + 1)..(m[2] - 1) : IsHex(base[i])
        /\ base[m[2]] = "."
        /\ m[2] < Len(base)
        /\ \A i \in (m[2] + 1)..Len(base) : IsLetter(base[i])}

\* A replacement that puts "*" in the place of the delimiter too
replaceDelimiterAndHash(base) ==
    IF HashMatches(base) = {} THEN base
    ELSE LET m == CHOOSE x \in HashMatches(base) : TRUE
         IN  SubSeq(base, 1, m[1] - 1) \o <<"*">> \o SubSeq(base, m[2], Len(base))

\* base.replace(/([-.])[a-f0-9]{8,}(\.[a-z]+)$/i, "$1*$2")
replaceDelimitedHash(base) ==
    IF HashMatches(base) = {} THEN base
    ELSE LET m == CHOOSE x \in HashMatches(base) : TRUE
         IN  SubSeq(base, 1, m[1]) \o <<"*">> \o SubSeq(base, m[2], Len(base))

\* The length of the run of hex characters of s that starts at position k
RECURSIVE HexRunLength(_, _)
HexRunLength(s, k) ==
    IF k > Len(s) \/ ~IsHex(s[k]) THEN 0 ELSE 1 + HexRunLength(s, k + 1)

\* A replacement that takes a hex run of any length for a hash
RECURSIVE replaceHexRunsOfAnyLength(_, _)
replaceHexRunsOfAnyLength(s, k) ==
    IF k > Len(s) THEN <<>>
    ELSE LET run == HexRunLength(s, k)
         IN  IF run > 0 THEN <<"*">> \o replaceHexRunsOfAnyLength(s, k + run)
             ELSE <<s[k]>> \o replaceHexRunsOfAnyLength(s, k + 1)

\* A replacement without the g flag: only the first run of 8 or more hex
\* characters becomes "*"
RECURSIVE replaceFirstHexRun(_, _)
replaceFirstHexRun(s, k) ==
    IF k > Len(s) THEN <<>>
    ELSE LET run == HexRunLength(s, k)
         IN  IF run >= MinHashLength THEN <<"*">> \o SubSeq(s, k + run, Len(s))
             ELSE IF run > 0 THEN SubSeq(s, k, k + run - 1) \o replaceFirstHexRun(s, k + run)
             ELSE <<s[k]>> \o replaceFirstHexRun(s, k + 1)

\* base.replace(/[a-f0-9]{8,}/gi, "*") from position k on: a run of 8 or
\* more hex characters becomes one "*", every other character stays
RECURSIVE replaceHexRuns(_, _)
replaceHexRuns(s, k) ==
    IF k > Len(s) THEN <<>>
    ELSE LET run == HexRunLength(s, k)
         IN  IF run >= MinHashLength THEN <<"*">> \o replaceHexRuns(s, k + run)
             ELSE IF run > 0 THEN SubSeq(s, k, k + run - 1) \o replaceHexRuns(s, k + run)
             ELSE <<s[k]>> \o replaceHexRuns(s, k + 1)

normalizeAssetName(name) ==
    LET dir == dirname(name)
        base == basename(name)
        normalized == replaceDelimitedHash(base)
        fallback == replaceHexRuns(base, 1)
    IN  IF normalized # base
        THEN (IF dir = <<".">> THEN normalized ELSE join(dir, normalized))
        ELSE (IF dir = <<".">> THEN fallback ELSE join(dir, fallback))

\* ------------------------------------------------------------------------
\* compress.ts: getGzipSize
\* ------------------------------------------------------------------------
\* The extensions of COMPRESSIBLE = /\.(css|html|json|js|mjs|svg|txt|xml|xhtml)$/
CompressibleExtensions ==
    {<<".", "c", "s", "s">>, <<".", "h", "t", "m", "l">>, <<".", "j", "s", "o", "n">>,
     <<".", "j", "s">>, <<".", "m", "j", "s">>, <<".", "s", "v", "g">>,
     <<".", "t", "x", "t">>, <<".", "x", "m", "l">>, <<".", "x", "h", "t", "m", "l">>}

\* The letters of a string folded to lower case
ToLower(s) ==
    LET lower(c) ==
            CASE c = "A" -> "a" [] c = "B" -> "b" [] c = "C" -> "c" [] c = "D" -> "d"
              [] c = "E" -> "e" [] c = "F" -> "f" [] c = "G" -> "g" [] c = "H" -> "h"
              [] c = "I" -> "i" [] c = "J" -> "j" [] c = "K" -> "k" [] c = "L" -> "l"
              [] c = "M" -> "m" [] c = "N" -> "n" [] c = "O" -> "o" [] c = "P" -> "p"
              [] c = "Q" -> "q" [] c = "R" -> "r" [] c = "S" -> "s" [] c = "T" -> "t"
              [] c = "U" -> "u" [] c = "V" -> "v" [] c = "W" -> "w" [] c = "X" -> "x"
              [] c = "Y" -> "y" [] c = "Z" -> "z" [] OTHER -> c
    IN  [i \in DOMAIN s |-> lower(s[i])]

\* A COMPRESSIBLE with the i flag
COMPRESSIBLEIgnoringCase(fileName) ==
    \E ext \in CompressibleExtensions : EndsWith(ToLower(fileName), ext)

\* COMPRESSIBLE.test(fileName)
COMPRESSIBLE(fileName) ==
    \E ext \in CompressibleExtensions : EndsWith(fileName, ext)

\* The gzip member around the deflate stream (RFC 1952): 10 bytes of header,
\* 8 bytes of trailer (CRC-32 and ISIZE)
GZIP_HEADER_BYTES == 10

GZIP_TRAILER_BYTES == 8

\* The length of the deflate stream of a content: the empty content is one
\* final block of 2 bytes; otherwise the model takes the stored encoding, a
\* 5-byte block header followed by the bytes (the compressor may do better,
\* never worse than one byte of stream).
deflateByteLength(content) == IF content = <<>> THEN 2 ELSE 5 + Len(content)

\* gzipSync(content).byteLength
gzipSyncByteLength(content) ==
    GZIP_HEADER_BYTES + deflateByteLength(content) + GZIP_TRAILER_BYTES

getGzipSize(fileName, content) ==
    IF ~COMPRESSIBLE(fileName) THEN Null ELSE Number(gzipSyncByteLength(content))

\* A source-map test that looks for ".map" anywhere in the path
isSourceMapAnywhere(outputPath) ==
    \E i \in 1..(Len(outputPath) - 3) : SubSeq(outputPath, i, i + 3) = <<".", "m", "a", "p">>

\* outputPath.endsWith(".map")
isSourceMap(outputPath) == EndsWith(outputPath, <<".", "m", "a", "p">>)

\* The property names every object inherits from Object.prototype
ObjectPrototypeProperties ==
    {"constructor", "toString", "toLocaleString", "valueOf", "hasOwnProperty",
     "isPrototypeOf", "propertyIsEnumerable", "__proto__"}

\* key in object, for an object with the given own keys: own or inherited
In(key, ownKeys) == key \in ownKeys \/ key \in ObjectPrototypeProperties

\* A chunkIdMap that numbers the emitted outputs only: source maps take no
\* ordinal
chunkIdMapSkippingMaps(outputEntries) ==
    [k \in DOMAIN outputEntries |->
        UniqueId(Cardinality({j \in 1..(k - 1) : ~isSourceMap(outputEntries[j].path)}),
                 outputEntries[k].path)]

\* chunkIdMap: the uniqueId of the output at each (1-based) position; the code
\* counts positions from 0
chunkIdMap(outputEntries) ==
    [k \in DOMAIN outputEntries |-> UniqueId(k - 1, outputEntries[k].path)]

\* output.entryPoint as a condition: set and not empty
Truthy(output) == "entryPoint" \in DOMAIN output /\ output.entryPoint # <<>>

\* An entry test by truthiness: an empty entryPoint counts as none
HasEntryPointTruthy(output) == Truthy(output)

\* output.entryPoint !== undefined
HasEntryPoint(output) == "entryPoint" \in DOMAIN output

\* imp.external as a condition
IsExternal(imp) == "external" \in DOMAIN imp /\ imp.external

\* A collection of the dynamic imports that does not look at the external flag
RECURSIVE DynamicImportsExternalToo(_)
DynamicImportsExternalToo(imports) ==
    IF imports = <<>> THEN <<>>
    ELSE LET imp == Head(imports)
         IN  (IF imp.kind = "dynamic-import" THEN <<imp.path>> ELSE <<>>)
             \o DynamicImportsExternalToo(Tail(imports))

\* The loop over output.imports: the paths of the dynamic imports that are
\* not external, in order
RECURSIVE DynamicImports(_)
DynamicImports(imports) ==
    IF imports = <<>> THEN <<>>
    ELSE LET imp == Head(imports)
         IN  (IF imp.kind = "dynamic-import" /\ ~IsExternal(imp) THEN <<imp.path>> ELSE <<>>)
             \o DynamicImports(Tail(imports))

\* readFileSync(filePath): the content of the file, or the error it throws; a
\* path the disk does not hold is no file
readFileSync(files, filePath) ==
    IF filePath \in DOMAIN files THEN files[filePath] ELSE [error |-> "ENOENT"]

\* The try block of the gzip size: the value assigned to gzipSize, or what
\* readFileSync threw
TryGzipSize(outputDir, outputPath, files) ==
    LET filePath == join(outputDir, basename(outputPath))
        content == readFileSync(files, filePath)
    IN  IF "error" \in DOMAIN content THEN [thrown |-> content.error]
        ELSE [value |-> getGzipSize(outputPath, content.content)]

\* A catch that lets the error of the read through
CatchNothing(attempt) == IF "thrown" \in DOMAIN attempt THEN attempt ELSE attempt.value

\* The empty catch block: gzipSize keeps its initial null
CatchLeavesNull(attempt) == IF "thrown" \in DOMAIN attempt THEN Null ELSE attempt.value

\* options.outputDir as a condition: set and not empty
HasOutputDir(opts) == "outputDir" \in DOMAIN opts /\ opts.outputDir # <<>>

\* const outputDir = options.outputDir ? resolve(options.outputDir) : undefined;
\* let gzipSize = null; if (outputDir) { try { ... } catch { } }
GzipSize(opts, outputPath, files) ==
    IF ~HasOutputDir(opts) THEN Null
    ELSE CatchLeavesNull(TryGzipSize(resolve(opts.outputDir), outputPath, files))

\* The asset pushed for an output
Asset(output, opts, files) ==
    [name |-> output.path,
     size |-> output.bytes,
     gzipSize |-> GzipSize(opts, output.path, files),
     normalized |-> normalizeAssetName(output.path)]

ChunkName(output) ==
    IF Truthy(output) THEN stripExtension(basename(output.entryPoint))
    ELSE stripExtension(basename(output.path))

\* The chunk pushed for an output
Chunk(output, uniqueId) ==
    [id |-> output.path,
     uniqueId |-> uniqueId,
     entry |-> HasEntryPoint(output),
     initial |-> HasEntryPoint(output),
     names |-> <<ChunkName(output)>>,
     files |-> <<output.path>>,
     dynamicImports |-> DynamicImports(output.imports)]

\* The first loop over the outputs, from position k on: source maps are skipped
RECURSIVE Assets(_, _, _, _)
Assets(outputEntries, k, opts, files) ==
    IF k > Len(outputEntries) THEN <<>>
    ELSE IF isSourceMap(outputEntries[k].path)
         THEN Assets(outputEntries, k + 1, opts, files)
    ELSE <<Asset(outputEntries[k], opts, files)>>
         \o Assets(outputEntries, k + 1, opts, files)

RECURSIVE Chunks(_, _)
Chunks(outputEntries, k) ==
    IF k > Len(outputEntries) THEN <<>>
    ELSE IF isSourceMap(outputEntries[k].path) THEN Chunks(outputEntries, k + 1)
    ELSE <<Chunk(outputEntries[k], chunkIdMap(outputEntries)[k])>>
         \o Chunks(outputEntries, k + 1)

\* The inner loop of the modules: the uniqueIds of the outputs, from position
\* k on, that are no source maps and have inputPath in their inputs
RECURSIVE ChunkUniqueIds(_, _, _)
ChunkUniqueIds(inputPath, outputEntries, k) ==
    IF k > Len(outputEntries) THEN <<>>
    ELSE IF isSourceMap(outputEntries[k].path)
         THEN ChunkUniqueIds(inputPath, outputEntries, k + 1)
    ELSE (IF In(inputPath, outputEntries[k].inputs)
          THEN <<chunkIdMap(outputEntries)[k]>> ELSE <<>>)
         \o ChunkUniqueIds(inputPath, outputEntries, k + 1)

\* The module pushed for an input
Module(input, outputEntries) ==
    [name |-> input.path,
     size |-> input.bytes,
     chunkUniqueIds |-> ChunkUniqueIds(input.path, outputEntries, 1)]

Modules(inputEntries, outputEntries) ==
    [k \in DOMAIN inputEntries |-> Module(inputEntries[k], outputEntries)]

PLUGIN_NAME == "metafile-codecov-bundle"

PLUGIN_VERSION == "<version of package.json>"

\* Date.now() at the call
Now == 1800

\* The optional members of the options that the payload passes through
PassThrough(opts) ==
    [k \in DOMAIN opts \cap {"bundler", "duration"} |-> opts[k]]

\* The payload transformMetafile returns
Transform(m, opts, files) ==
    [k \in {"version", "bundleName", "builtAt", "assets", "chunks", "modules", "plugin"}
           \cup DOMAIN PassThrough(opts) |->
        CASE k = "version" -> "3"
          [] k = "bundleName" -> opts.bundleName
          [] k = "builtAt" -> IF "builtAt" \in DOMAIN opts THEN opts.builtAt ELSE Now
          [] k = "assets" -> Assets(m.outputs, 1, opts, files)
          [] k = "chunks" -> Chunks(m.outputs, 1)
          [] k = "modules" -> Modules(m.inputs, m.outputs)
          [] k = "plugin" -> [name |-> PLUGIN_NAME, version |-> PLUGIN_VERSION]
          [] OTHER -> PassThrough(opts)[k]]

\* ------------------------------------------------------------------------
\* The metafiles and options of the transform
\* ------------------------------------------------------------------------
MaxOutputs == 2

MaxInputs == 2

\* Output paths: a bundle, its source map, and a bundle in a directory whose
\* name has ".map" inside
OutputPaths ==
    {<<"a", ".", "j", "s">>,
     <<"a", ".", "j", "s", ".", "m", "a", "p">>,
     <<"d", "/", "b", ".", "m", "a", "p", ".", "j", "s">>}

OutputBytes(path) == 100 * Len(path)

\* The imports of a bundle. a.js: a static one, a dynamic one, an external
\* dynamic one and a dynamic one marked not external. d/b.map.js: the kinds
\* in another order, a require-call and an external static import among them.
OutputImports(path) ==
    IF path = <<"a", ".", "j", "s">>
    THEN <<[path |-> <<"x", ".", "j", "s">>, kind |-> "import-statement"],
           [path |-> <<"d", "/", "b", ".", "m", "a", "p", ".", "j", "s">>,
            kind |-> "dynamic-import"],
           [path |-> <<"f", "s">>, kind |-> "dynamic-import", external |-> TRUE],
           [path |-> <<"y", ".", "j", "s">>, kind |-> "dynamic-import", external |-> FALSE]>>
    ELSE IF path = <<"d", "/", "b", ".", "m", "a", "p", ".", "j", "s">>
    THEN <<[path |-> <<"y", ".", "j", "s">>, kind |-> "dynamic-import", external |-> FALSE],
           [path |-> <<"o", "s">>, kind |-> "import-statement", external |-> TRUE],
           [path |-> <<"z", ".", "j", "s">>, kind |-> "require-call"],
           [path |-> <<"a", ".", "j", "s">>, kind |-> "dynamic-import"],
           [path |-> <<"y", ".", "j", "s">>, kind |-> "dynamic-import"]>>
    ELSE <<>>

\* Input paths: a source file, and a file named like an inherited property
InputPaths == {"src/index.ts", "constructor"}

InputBytes(path) == IF path = "src/index.ts" THEN 150 ELSE 80

EntryPoints == {<<>>, <<"s", "r", "c", "/", "m", ".", "t", "s", "x">>}

\* An output without an entry point, and one with each entry point
OutputsAt(path) ==
    LET plain == [path : {path}, bytes : {OutputBytes(path)}, inputs : SUBSET InputPaths,
                  imports : {OutputImports(path)}]
    IN  plain \cup {WithField(o, "entryPoint", ep) : o \in plain, ep \in EntryPoints}

Range(q) == {q[i] : i \in DOMAIN q}

\* The sequences of distinct elements of a set, up to a length
RECURSIVE DistinctSeqs(_, _)
DistinctSeqs(S, n) ==
    IF n = 0 THEN {<<>>}
    ELSE LET shorter == DistinctSeqs(S, n - 1)
         IN  shorter \cup
             UNION {{Append(q, x) : x \in S \ Range(q)} :
                        q \in {r \in shorter : Len(r) = n - 1}}

\* Object.entries of the outputs: one entry for each path of a sequence
RECURSIVE OutputEntries(_)
OutputEntries(paths) ==
    IF paths = <<>> THEN {<<>>}
    ELSE {<<o>> \o more : o \in OutputsAt(Head(paths)), more \in OutputEntries(Tail(paths))}

\* Object.entries of the inputs
InputEntries(paths) == [k \in DOMAIN paths |-> [path |-> paths[k], bytes |-> InputBytes(paths[k])]]

Metafiles ==
    [inputs : {InputEntries(ps) : ps \in DistinctSeqs(InputPaths, MaxInputs)},
     outputs : UNION {OutputEntries(ps) : ps \in DistinctSeqs(OutputPaths, MaxOutputs)}]

TransformOptionsSet ==
    {[bundleName |-> "test"],
     [bundleName |-> "my-app", builtAt |-> 1700, duration |-> 25,
      bundler |-> [name |-> "bun", version |-> "1.2.0"]]}

\* A disk without files
EmptyDisk == <<>>

TransformStart(at, metafiles, optionSet, disks) ==
    /\ metafile \in metafiles
    /\ toptions \in optionSet
    /\ disk \in disks
    /\ tpc = at
    /\ payload = EmptyObject

TransformInit == TransformStart("idle", Metafiles, TransformOptionsSet, {EmptyDisk})

TransformOff ==
    TransformStart("off", {[inputs |-> <<>>, outputs |-> <<>>]}, {[bundleName |-> "test"]},
                   {EmptyDisk})

\* No pure function is called
CallOff == arg = <<>> /\ cpc = "off" /\ ret = Undefined

\* ------------------------------------------------------------------------
\* providers/github.ts: encodeSlug, isGitHubActions, getServiceParams
\* ------------------------------------------------------------------------
\* The strings these functions take apart or put together are sequences of
\* characters; a variable of the environment that is not set is no member
\* of the record.

\* ownerRepo.indexOf("/"), counted from 1; 0 when there is none
IndexOf(str, c) ==
    IF \A i \in DOMAIN str : str[i] # c THEN 0
    ELSE CHOOSE i \in DOMAIN str : str[i] = c /\ \A j \in 1..(i - 1) : str[j] # c

\* An encodeSlug that splits at the last "/"
encodeSlugAtLastSlash(ownerRepo) ==
    LET idx == LastIndexOf(ownerRepo, "/")
    IN  IF idx = 0 THEN ownerRepo \o <<":", ":", ":", ":">>
        ELSE SubSeq(ownerRepo, 1, idx - 1) \o <<":", ":", ":">>
             \o SubSeq(ownerRepo, idx + 1, Len(ownerRepo)) \o <<":", ":", ":", ":">>

encodeSlug(ownerRepo) ==
    LET idx == IndexOf(ownerRepo, "/")
    IN  IF idx = 0 THEN ownerRepo \o <<":", ":", ":", ":">>
        ELSE SubSeq(ownerRepo, 1, idx - 1) \o <<":", ":", ":">>
             \o SubSeq(ownerRepo, idx + 1, Len(ownerRepo)) \o <<":", ":", ":", ":">>

\* env.NAME || fallback
EnvOr(e, name, fallback) ==
    IF name \in DOMAIN e /\ e[name] # <<>> THEN e[name] ELSE fallback

\* /^refs\/pull\/(\d+)\/merge$/.exec(ref): the digits, or ""
extractPrNumber(ref) ==
    LET prefix == <<"r", "e", "f", "s", "/", "p", "u", "l", "l", "/">>
        suffix == <<"/", "m", "e", "r", "g", "e">>
        digits == SubSeq(ref, Len(prefix) + 1, Len(ref) - Len(suffix))
    IN  IF /\ Len(ref) > Len(prefix) + Len(suffix)
           /\ SubSeq(ref, 1, Len(prefix)) = prefix
           /\ EndsWith(ref, suffix)
           /\ \A i \in DOMAIN digits : digits[i] \in Digits
        THEN digits ELSE <<>>

\* env.GITHUB_HEAD_REF || env.GITHUB_REF_NAME || ""
extractBranch(e) == EnvOr(e, "GITHUB_HEAD_REF", EnvOr(e, "GITHUB_REF_NAME", <<>>))

\* What a synchronous call ends with
Thrown(err) == [thrown |-> err]

Returned(value) == [returned |-> value]

DefaultServerUrl == <<"h", "t", "t", "p", "s", ":", "/", "/", "g", "i", "t", "h", "u", "b", ".", "c", "o", "m">>

\* A check of the two required variables that looks at the commit first
missingVariableCommitFirst(e) ==
    IF EnvOr(e, "GITHUB_SHA", <<>>) = <<>> THEN "GITHUB_SHA"
    ELSE IF EnvOr(e, "GITHUB_REPOSITORY", <<>>) = <<>> THEN "GITHUB_REPOSITORY"
    ELSE ""

\* The two guards of getServiceParams: the first required variable that is
\* undefined or empty, "" when both are set
missingVariable(e) ==
    IF EnvOr(e, "GITHUB_REPOSITORY", <<>>) = <<>> THEN "GITHUB_REPOSITORY"
    ELSE IF EnvOr(e, "GITHUB_SHA", <<>>) = <<>> THEN "GITHUB_SHA"
    ELSE ""

RepositoryNotSet == MkError(<<"GITHUB_REPOSITORY is not set">>)

CommitNotSet == MkError(<<"GITHUB_SHA is not set">>)

getServiceParams(e) ==
    IF missingVariable(e) = "GITHUB_REPOSITORY" THEN Thrown(RepositoryNotSet)
    ELSE IF missingVariable(e) = "GITHUB_SHA" THEN Thrown(CommitNotSet)
    ELSE LET repository == e.GITHUB_REPOSITORY
             serverUrl == EnvOr(e, "GITHUB_SERVER_URL", DefaultServerUrl)
             runId == EnvOr(e, "GITHUB_RUN_ID", <<>>)
         IN  Returned([branch |-> extractBranch(e),
                       commit |-> e.GITHUB_SHA,
                       pr |-> extractPrNumber(EnvOr(e, "GITHUB_REF", <<>>)),
                       service |-> "github-actions",
                       slug |-> encodeSlug(repository),
                       build |-> runId,
                       buildURL |-> IF runId # <<>>
                                    THEN serverUrl \o <<"/">> \o repository
                                         \o <<"/", "a", "c", "t", "i", "o", "n", "s", "/", "r", "u", "n", "s", "/">> \o runId
                                    ELSE <<>>,
                       job |-> EnvOr(e, "GITHUB_JOB", <<>>)])

\* ------------------------------------------------------------------------
\* cli.ts: runUpload
\* ------------------------------------------------------------------------
\* env.GITHUB_ACTIONS === "true"
isGitHubActions(e) == e.GITHUB_ACTIONS = "true"

NotInGitHubActions == MkError(<<"--upload is only supported in GitHub Actions">>)

\* `Upload failed: ${result.error}`
UploadFailed(result) == MkError(<<"Upload failed: ">> \o result.error)

\* The options runUpload passes to uploadBundleStats; retryDelayMs is
\* undefined when runUpload was called without it
RunOptions(arguments, oidcToken, serviceParams) ==
    LET required == [payload |-> arguments.payload, oidcToken |-> oidcToken,
                     serviceParams |-> serviceParams]
    IN  IF "retryDelayMs" \in DOMAIN arguments
        THEN WithField(required, "retryDelayMs", arguments.retryDelayMs)
        ELSE required

\* runUpload up to its first await
runBeforeToken(e) ==
    IF ~isGitHubActions(e) THEN [do |-> "throw", err |-> NotInGitHubActions]
    ELSE [do |-> "fetchOidcToken", lines |-> <<"Fetching OIDC token...">>]

\* runUpload after fetchOidcToken settled, up to its second await
runAfterToken(tok, e, arguments) ==
    IF tok.state = "rejected" THEN [do |-> "throw", err |-> tok.error, lines |-> <<>>]
    ELSE LET params == getServiceParams(e)
         IN  IF "thrown" \in DOMAIN params
             THEN [do |-> "throw", err |-> params.thrown,
                   lines |-> <<"Gathering service parameters...">>]
             ELSE [do |-> "uploadBundleStats",
                   options |-> RunOptions(arguments, tok.value, params.returned),
                   lines |-> <<"Gathering service parameters...",
                               "Uploading bundle stats to Codecov...">>]

\* An end of runUpload that does not look at result.success
runAfterUploadUnchecked(result) == [do |-> "return", lines |-> <<"Upload successful">>]

\* runUpload after uploadBundleStats resolved
runAfterUpload(result) ==
    IF ~result.success THEN [do |-> "throw", err |-> UploadFailed(result), lines |-> <<>>]
    ELSE [do |-> "return", lines |-> <<"Upload successful">>]

\* The environments of a run: the CI flag, the two variables fetchOidcToken
\* reads and the request token (undefined, or set), and the required
\* variables of getServiceParams and the run id (not set, or set)
RunEnvSet ==
    LET runtime == [GITHUB_ACTIONS : {Undefined, "true", "1"},
                    ACTIONS_ID_TOKEN_REQUEST_URL : {Undefined, TokenRequestUrl},
                    ACTIONS_RUNTIME_TOKEN : {Undefined, "runtime-token"},
                    ACTIONS_ID_TOKEN_REQUEST_TOKEN : {"runtime-bearer-token"}]
        repository == runtime \cup {WithField(r, "GITHUB_REPOSITORY", <<"o", "w", "n", "e", "r", "/", "r", "e", "p", "o">>) : r \in runtime}
        commit == repository \cup {WithField(r, "GITHUB_SHA", <<"a", "b", "c", "1", "2", "3">>) : r \in repository}
    IN  commit \cup {WithField(r, "GITHUB_RUN_ID", <<"9", "9">>) : r \in commit}

RunArguments ==
    {[payload |-> <<"{\"version\":\"3\"}">>],
     [payload |-> <<"{}">>, retryDelayMs |-> 0]}

RunStart(at, argumentSet) ==
    /\ rargs \in argumentSet
    /\ rpc = at
    /\ log = <<>>
    /\ rpromise = Pending

RunInit == RunStart("idle", RunArguments)

RunOff == RunStart("off", {[payload |-> <<"{}">>]})

\* The call of runUpload: outside GitHub Actions it throws; otherwise it calls
\* fetchOidcToken (which takes its step next: nothing else can run) and
\* awaits it.
runUpload ==
    /\ rpc = "idle"
    /\ LET step == runBeforeToken(env)
       IN  IF step.do = "throw"
           THEN /\ rpromise' = Rejected(step.err)
                /\ rpc' = "done"
                /\ UNCHANGED <<log, opc>>
           ELSE /\ log' = log \o step.lines
                /\ rpc' = "awaitToken"
                /\ opc' = "idle"
                /\ rpromise' = rpromise
    /\ UNCHANGED <<rargs, env, oresponse, token>>
    /\ UNCHANGED <<uploadVars, netVars, transformVars, callVars, againVars>>

\* fetchOidcToken settled: runUpload rejects with its error, or gathers the
\* service parameters and calls uploadBundleStats (which takes its step next)
\* and awaits it.
RunTokenSettles ==
    /\ rpc = "awaitToken"
    /\ opc = "done"
    /\ LET step == runAfterToken(token, env, rargs)
       IN  /\ log' = log \o step.lines
           /\ IF step.do = "throw"
              THEN /\ rpromise' = Rejected(step.err)
                   /\ rpc' = "done"
                   /\ UNCHANGED <<options, pc>>
              ELSE /\ options' = step.options
                   /\ pc' = "idle"
                   /\ rpc' = "awaitUpload"
                   /\ rpromise' = rpromise
    /\ UNCHANGED <<rargs, frame, retries, presignedUrl, response, outcome>>
    /\ UNCHANGED <<netVars, oidcVars, transformVars, callVars, againVars>>

\* uploadBundleStats resolved: runUpload throws on a failed result, or logs
\* the success and returns.
RunUploadSettles ==
    /\ rpc = "awaitUpload"
    /\ pc = "done"
    /\ LET step == IF outcome.state = "fulfilled" THEN runAfterUpload(outcome.value)
                   ELSE [do |-> "throw", err |-> outcome.value, lines |-> <<>>]
       IN  /\ log' = log \o step.lines
           /\ rpromise' = IF step.do = "throw" THEN Rejected(step.err) ELSE Fulfilled(Undefined)
    /\ rpc' = "done"
    /\ UNCHANGED rargs
    /\ UNCHANGED <<uploadVars, netVars, oidcVars, transformVars, callVars, againVars>>

\* A pure function is about to be called with one of the arguments
CallStart(arguments) == arg \in arguments /\ cpc = "idle" /\ ret = Undefined

\* ------------------------------------------------------------------------
\* The asset names normalizeAssetName is called with
\* ------------------------------------------------------------------------
\* Directory parts: none, plain ones, one that looks like a hash, and ones
\* that path.join rewrites
NameDirs ==
    {<<>>, <<"d", "i", "s", "t", "/">>, <<"d", "i", "s", "t", "/", "a", "/">>, <<"/">>,
     <<"d", "e", "a", "d", "b", "e", "e", "f", "0", "0", "/">>,
     <<".", "/">>, <<".", "/", "d", "i", "s", "t", "/">>, <<"a", "/", "/">>,
     <<".", ".", "/">>}

\* What precedes the delimiter: nothing, a word, a short hex word, a hex run
\* of hash length
NameStems ==
    {<<>>, <<"m", "a", "i", "n">>, <<"c", "a", "f", "e">>,
     <<"d", "e", "a", "d", "b", "e", "e", "f", "0">>}

NameDelimiters == {<<>>, <<"-">>, <<".">>, <<"_">>}

\* The first n characters of a mixed-case hex string
HexRun(n) == SubSeq(<<"a", "B", "c", "1", "2", "3", "e", "F", "0">>, 1, n)

\* Hex runs: none, short ones, and ones of hash length
NameRuns == {HexRun(n) : n \in {0, 3, MinHashLength - 1, MinHashLength, MinHashLength + 1}}

\* What follows the run: nothing, an extension of letters, an upper-case one,
\* one with a digit, and two extensions
NameTails ==
    {<<>>, <<".", "j", "s">>, <<".", "J", "S">>, <<".", "w", "o", "f", "f", "2">>,
     <<".", "m", "i", "n", ".", "j", "s">>}

AssetNames ==
    {d \o stem \o delimiter \o run \o tail :
        d \in NameDirs, stem \in NameStems, delimiter \in NameDelimiters,
        run \in NameRuns, tail \in NameTails}

NormalizeInit == CallStart(AssetNames)

\* The call normalizeAssetName(name)
CallNormalizeAssetName ==
    /\ cpc = "idle"
    /\ ret' = normalizeAssetName(arg)
    /\ cpc' = "done"
    /\ UNCHANGED arg
    /\ UNCHANGED <<uploadVars, netVars, oidcVars, transformVars, runVars, againVars>>

\* ------------------------------------------------------------------------
\* The slugs encodeSlug is called with
\* ------------------------------------------------------------------------
MaxSlugLength == 4

\* Every string of up to MaxSlugLength characters over two letters and "/"
Slugs == UNION {[1..n -> {"o", "r", "/"}] : n \in 0..MaxSlugLength}

SlugInit == CallStart(Slugs)

\* The call encodeSlug(ownerRepo)
CallEncodeSlug ==
    /\ cpc = "idle"
    /\ ret' = encodeSlug(arg)
    /\ cpc' = "done"
    /\ UNCHANGED arg
    /\ UNCHANGED <<uploadVars, netVars, oidcVars, transformVars, runVars, againVars>>

\* ------------------------------------------------------------------------
\* The environments getServiceParams is called with
\* ------------------------------------------------------------------------
\* The records of a set, and each with one more member drawn from values
Optional(records, name, values) ==
    records \cup {WithField(r, name, v) : r \in records, v \in values}

\* Each variable is not set, empty, or set
ServiceEnvSet ==
    LET repository == Optional({EmptyObject}, "GITHUB_REPOSITORY",
                               {<<>>, <<"o", "w", "n", "e", "r", "/", "r", "e", "p", "o">>, <<"o", "w", "n", "e", "r", "/", "r", "e", "p", "o", "/", "x">>})
        commit == Optional(repository, "GITHUB_SHA", {<<>>, <<"a", "b", "c", "1", "2", "3">>})
        server == Optional(commit, "GITHUB_SERVER_URL", {<<>>, <<"h", "t", "t", "p", "s", ":", "/", "/", "g", "h", "e", ".", "i", "o">>})
        run == Optional(server, "GITHUB_RUN_ID", {<<>>, <<"9", "9">>})
        ref == Optional(run, "GITHUB_REF", {<<"r", "e", "f", "s", "/", "p", "u", "l", "l", "/", "4", "2", "/", "m", "e", "r", "g", "e">>, <<"r", "e", "f", "s", "/", "h", "e", "a", "d", "s", "/", "m", "a", "i", "n">>})
        head == Optional(ref, "GITHUB_HEAD_REF", {<<"f", "e", "a", "t">>})
        name == Optional(head, "GITHUB_REF_NAME", {<<"m", "a", "i", "n">>})
    IN  Optional(name, "GITHUB_JOB", {<<"b", "u", "i", "l", "d">>})

ServiceParamsInit == CallStart(ServiceEnvSet)

\* The call getServiceParams(env)
CallGetServiceParams ==
    /\ cpc = "idle"
    /\ ret' = getServiceParams(arg)
    /\ cpc' = "done"
    /\ UNCHANGED arg
    /\ UNCHANGED <<uploadVars, netVars, oidcVars, transformVars, runVars, againVars>>

\* ------------------------------------------------------------------------
\* The file names and contents getGzipSize is called with
\* ------------------------------------------------------------------------
FileStems == {<<>>, <<"f", "i", "l", "e">>, <<"d", "i", "s", "t", "/", "x", ".", "y">>}

\* Extensions outside the list: binary ones, upper-case ones, the list's
\* letters without the ".", a longer and a shorter extension, a source map
OtherExtensions ==
    {<<>>, <<".", "p", "n", "g">>, <<".", "w", "o", "f", "f", "2">>, <<".", "z", "i", "p">>,
     <<".", "J", "S">>, <<".", "C", "s", "s">>, <<".", "H", "T", "M", "L">>,
     <<"j", "s">>, <<"_", "j", "s", "o", "n">>, <<".", "j", "s", "x">>, <<".", "j">>,
     <<".", "j", "s", ".", "m", "a", "p">>, <<".", "j", "s", ".">>, <<".", "t", "s">>}

FileNames ==
    {stem \o ext : stem \in FileStems, ext \in CompressibleExtensions \cup OtherExtensions}

\* Contents: empty, the bytes of "test", the first bytes of a PNG, a long
\* run of one byte
Contents ==
    {<<>>, <<116, 101, 115, 116>>, <<137, 80, 78, 71>>, [i \in 1..40 |-> 120]}

GzipArguments == [fileName : FileNames, content : Contents]

GzipInit == CallStart(GzipArguments)

\* The call getGzipSize(fileName, content)
CallGetGzipSize ==
    /\ cpc = "idle"
    /\ ret' = getGzipSize(arg.fileName, arg.content)
    /\ cpc' = "done"
    /\ UNCHANGED arg
    /\ UNCHANGED <<uploadVars, netVars, oidcVars, transformVars, runVars, againVars>>

\* ------------------------------------------------------------------------
\* The metafiles, options and disks of a transform that reads the outputs
\* ------------------------------------------------------------------------
ImagePath == <<"i", ".", "p", "n", "g">>

\* The output paths of a build with an image among them
BuiltPaths == OutputPaths \cup {ImagePath}

\* One output for each path, holding the one input
BuiltOutputs(paths) ==
    [k \in DOMAIN paths |->
        [path |-> paths[k], bytes |-> OutputBytes(paths[k]), inputs |-> {"src/index.ts"},
         imports |-> OutputImports(paths[k])]]

BuiltMetafiles ==
    [inputs : {InputEntries(<<"src/index.ts">>)},
     outputs : {BuiltOutputs(ps) : ps \in DistinctSeqs(BuiltPaths, MaxOutputs)}]

DistDir == <<"/", "w", "/", "d", "i", "s", "t">>

\* The files the build may have written to dist, by their absolute path
DistFiles ==
    {DistDir \o <<"/", "a", ".", "j", "s">>,
     DistDir \o <<"/", "b", ".", "m", "a", "p", ".", "j", "s">>,
     DistDir \o <<"/">> \o ImagePath}

\* A file is missing, unreadable, empty, or holds some bytes
FileStates ==
    {[error |-> "ENOENT"], [error |-> "EACCES"], [content |-> <<>>],
     [content |-> <<116, 101, 115, 116>>]}

Disks == [DistFiles -> FileStates]

\* outputDir: absent, empty, dist relative to the working directory, dist by
\* its absolute path with a trailing separator, and a directory without files
OutputDirs ==
    {<<>>, <<"d", "i", "s", "t">>, <<".", "/", "d", "i", "s", "t">>, DistDir \o <<"/">>,
     <<"o", "u", "t">>}

DiskOptionsSet ==
    {[bundleName |-> "test", builtAt |-> 1700]}
    \cup {[bundleName |-> "test", builtAt |-> 1700, outputDir |-> d] : d \in OutputDirs}

TransformDiskInit == TransformStart("idle", BuiltMetafiles, DiskOptionsSet, Disks)

\* The call of transformMetafile: synchronous, it returns the payload.
transformMetafile ==
    /\ tpc = "idle"
    /\ payload' = Transform(metafile, toptions, disk)
    /\ tpc' = "done"
    /\ UNCHANGED <<metafile, toptions, disk>>
    /\ UNCHANGED <<uploadVars, netVars, oidcVars, callVars, runVars, againVars>>

\* ------------------------------------------------------------------------
\* Two invocations in one process
\* ------------------------------------------------------------------------
\* upload.ts and transform.ts hold no module-level variable, only constants:
\* all the state of an invocation is in its parameters and locals.  Two
\* uploadBundleStats invocations in flight take turns at their awaits; the
\* variables of the upload hold the locals (and the fetcher's log) of the
\* invocation that runs next, parked those of the other.
Locals ==
    [options |-> options, pc |-> pc, frame |-> frame, retries |-> retries,
     presignedUrl |-> presignedUrl, response |-> response, outcome |-> outcome,
     calls |-> calls, responses |-> responses, delays |-> delays]

\* The locals of an invocation that has not started
IdleLocals(opts) ==
    [options |-> opts, pc |-> "idle", frame |-> "none", retries |-> 0,
     presignedUrl |-> Undefined, response |-> NoResponse, outcome |-> Pending,
     calls |-> <<>>, responses |-> <<>>, delays |-> <<>>]

NoInvocation == [pc |-> "off"]

\* An earlier call of transformMetafile: none yet
NoCall == [tpc |-> "off"]

\* retries as a counter of the module, shared by the invocations
retriesOfModule(own, current) == current

\* retries is a parameter of fetchWithRetry: each invocation has its own
retriesOfInvocation(own, current) == own

\* The other invocation's awaited promise has settled and its continuation
\* runs next: its locals come back as they were left
ResumeOther ==
    /\ parked # NoInvocation
    /\ parked' = Locals
    /\ options' = parked.options
    /\ pc' = parked.pc
    /\ frame' = parked.frame
    /\ retries' = retriesOfInvocation(parked.retries, retries)
    /\ presignedUrl' = parked.presignedUrl
    /\ response' = parked.response
    /\ outcome' = parked.outcome
    /\ calls' = parked.calls
    /\ responses' = parked.responses
    /\ delays' = parked.delays
    /\ UNCHANGED earlier
    /\ UNCHANGED <<oidcVars, transformVars, callVars, runVars>>

\* transformMetafile is called once more, with arguments of the caller's
\* choice; the first call and its result are kept for comparison
transformMetafileAgain(metafiles, optionSet, disks) ==
    /\ tpc = "done"
    /\ earlier = NoCall
    /\ earlier' = [tpc |-> "done", metafile |-> metafile, toptions |-> toptions,
                   disk |-> disk, payload |-> payload]
    /\ metafile' \in metafiles
    /\ toptions' \in optionSet
    /\ disk' \in disks
    /\ tpc' = "idle"
    /\ payload' = EmptyObject
    /\ UNCHANGED parked
    /\ UNCHANGED <<uploadVars, netVars, oidcVars, callVars, runVars>>

\* No second invocation
AgainOff == parked = NoInvocation /\ earlier = NoCall

\* The inputs of two invocations: options with and without a retry delay, a
\* fetcher that answers ok with a url, ok without one, or 500, or rejects
PairOptionsSet ==
    {o \in UploadOptionsSet :
        /\ o.payload = <<"{}">>
        /\ o.oidcToken = "test-jwt"
        /\ o.serviceParams = SERVICE_PARAMS
        /\ "apiUrl" \notin DOMAIN o}

PairResponses ==
    {MkResponse(200, "OK", JsonBody([url |-> PRESIGNED_URL])),
     MkResponse(500, "", TextBody)}

PairRejections == {MkError(<<"fetch failed">>)}

PairMetafiles ==
    [inputs : {InputEntries(<<"src/index.ts">>)},
     outputs : {BuiltOutputs(<<<<"a", ".", "j", "s", ".", "m", "a", "p">>,
                               <<"a", ".", "j", "s">>>>)}]

PairOptions ==
    {[bundleName |-> "test", builtAt |-> 1700, outputDir |-> <<"d", "i", "s", "t">>],
     [bundleName |-> "test", outputDir |-> <<"d", "i", "s", "t">>]}

PairDisks ==
    {[f \in DistFiles |-> [error |-> "ENOENT"]],
     [f \in DistFiles |->
        IF f = DistDir \o <<"/", "a", ".", "j", "s">> THEN [content |-> <<116, 101, 115, 116>>]
        ELSE [error |-> "ENOENT"]]}

PairInit ==
    /\ UploadStart("idle", PairOptionsSet)
    /\ parked \in {IdleLocals(o) : o \in PairOptionsSet}
    /\ TransformStart("idle", PairMetafiles, PairOptions, PairDisks)
    /\ earlier = NoCall

\* The fetcher of the invocation that runs answers
PairFetcherResolves ==
    /\ FetcherResolves
    /\ responses'[Len(responses')].response \in PairResponses

PairFetcherRejects ==
    /\ FetcherRejects
    /\ responses'[Len(responses')].error \in PairRejections

PairTransformAgain == transformMetafileAgain(PairMetafiles, PairOptions, PairDisks)

\* ------------------------------------------------------------------------
\* Properties of transformMetafile
\* ------------------------------------------------------------------------
\* The path ends in the four characters ".map"
EndsInDotMap(path) ==
    /\ Len(path) >= 4
    /\ path[Len(path) - 3] = "." /\ path[Len(path) - 2] = "m"
    /\ path[Len(path) - 1] = "a" /\ path[Len(path)] = "p"

\* The positions of the outputs that are no source maps, in ascending order
RECURSIVE Ascending(_)
Ascending(S) ==
    IF S = {} THEN <<>>
    ELSE LET least == CHOOSE x \in S : \A y \in S : x <= y
         IN  <<least>> \o Ascending(S \ {least})

Emitted == Ascending({k \in DOMAIN metafile.outputs : ~EndsInDotMap(metafile.outputs[k].path)})

\* "<i>-<path>" for the output at 1-based position k (i = k - 1 < 10)
OrdinalId(k) == <<ToString(k - 1), "-">> \o metafile.outputs[k].path

\* C7: every chunk's uniqueId is "<i>-<outputPath>" with i the zero-based
\* position of its output among all outputs of the metafile, the source maps
\* counted: an output after a source map keeps its absolute position.
C7_UniqueIdByAbsolutePosition ==
    tpc = "done" =>
        /\ Len(payload.chunks) = Len(Emitted)
        /\ \A n \in DOMAIN payload.chunks :
                /\ payload.chunks[n].id = metafile.outputs[Emitted[n]].path
                /\ payload.chunks[n].uniqueId = OrdinalId(Emitted[n])

C7_Witness ==
    /\ tpc = "done"
    /\ Len(metafile.outputs) = 2
    /\ EndsInDotMap(metafile.outputs[1].path)
    /\ Len(payload.chunks) = 1
    /\ payload.chunks[1].uniqueId = <<"1", "-", "a", ".", "j", "s">>

\* C8: assets and chunks hold one element for each output whose path does not
\* end in ".map" and none for the others, in the order of the outputs; at
\* each index the chunk's id and the asset's name are the output's path, the
\* chunk's files is that path alone and the asset's size the output's bytes.
C8_OneAssetAndChunkPerOutput ==
    tpc = "done" =>
        /\ Len(payload.assets) = Len(Emitted)
        /\ Len(payload.chunks) = Len(Emitted)
        /\ \A n \in DOMAIN Emitted :
                LET output == metafile.outputs[Emitted[n]]
                IN  /\ payload.chunks[n].id = output.path
                    /\ payload.assets[n].name = output.path
                    /\ payload.chunks[n].files = <<output.path>>
                    /\ payload.assets[n].size = output.bytes
        /\ \A n \in DOMAIN payload.assets : ~EndsInDotMap(payload.assets[n].name)
        /\ \A n \in DOMAIN payload.chunks : ~EndsInDotMap(payload.chunks[n].id)

C8_Witness ==
    /\ tpc = "done"
    /\ Len(metafile.outputs) = 2
    /\ metafile.outputs[1].path = <<"d", "/", "b", ".", "m", "a", "p", ".", "j", "s">>
    /\ EndsInDotMap(metafile.outputs[2].path)
    /\ Len(payload.assets) = 1
    /\ payload.assets[1].name = <<"d", "/", "b", ".", "m", "a", "p", ".", "j", "s">>
    /\ payload.assets[1].size = 1000
    /\ payload.chunks[1].files = <<<<"d", "/", "b", ".", "m", "a", "p", ".", "j", "s">>>>

\* C9: modules holds one Module for each input of the metafile, referenced by
\* an output or not, with the input's path as name and its bytes as size; a
\* module's chunkUniqueIds is the list of the uniqueIds of the outputs that
\* are no source maps and have the module's path as a key of their inputs,
\* in the order of the outputs, without duplicates.
LinkedTo(inputPath) ==
    Ascending({k \in DOMAIN metafile.outputs :
                  /\ ~EndsInDotMap(metafile.outputs[k].path)
                  /\ inputPath \in metafile.outputs[k].inputs})

C9_ModulesLinkByKey ==
    tpc = "done" =>
        /\ Len(payload.modules) = Len(metafile.inputs)
        /\ \A n \in DOMAIN metafile.inputs :
                LET linked == LinkedTo(metafile.inputs[n].path)
                IN  /\ payload.modules[n].name = metafile.inputs[n].path
                    /\ payload.modules[n].size = metafile.inputs[n].bytes
                    /\ payload.modules[n].chunkUniqueIds =
                           [j \in DOMAIN linked |-> OrdinalId(linked[j])]

\* C10: for every chunk entry = initial, and both are true exactly when the
\* output has its entryPoint member (an empty one too), false when it has none.
C10_EntryIffEntryPoint ==
    tpc = "done" =>
        \A n \in DOMAIN payload.chunks :
            /\ n \in DOMAIN Emitted
            /\ payload.chunks[n].entry = payload.chunks[n].initial
            /\ payload.chunks[n].entry = ("entryPoint" \in DOMAIN metafile.outputs[Emitted[n]])

C10_Witness ==
    /\ tpc = "done"
    /\ Len(payload.chunks) = 2
    /\ "entryPoint" \in DOMAIN metafile.outputs[1]
    /\ metafile.outputs[1].entryPoint = <<>>
    /\ payload.chunks[1].entry /\ payload.chunks[1].initial
    /\ "entryPoint" \notin DOMAIN metafile.outputs[2]
    /\ ~payload.chunks[2].entry /\ ~payload.chunks[2].initial

\* The positions in an imports list of the dynamic imports whose external
\* flag is not true, in ascending order
Selected(imports) ==
    Ascending({i \in DOMAIN imports :
                  /\ imports[i].kind = "dynamic-import"
                  /\ ~("external" \in DOMAIN imports[i] /\ imports[i].external = TRUE)})

\* C11: a chunk's dynamicImports is the sequence of the path values of the
\* entries of its output's imports whose kind is "dynamic-import" and whose
\* external flag is not true, in the order of output.imports; no other
\* import appears.
C11_DynamicImportsFiltered ==
    tpc = "done" =>
        \A n \in DOMAIN payload.chunks :
            /\ n \in DOMAIN Emitted
            /\ LET imports == metafile.outputs[Emitted[n]].imports
                    sel == Selected(imports)
               IN  payload.chunks[n].dynamicImports =
                       [j \in DOMAIN sel |-> imports[sel[j]].path]

C11_Witness ==
    /\ tpc = "done"
    /\ Len(payload.chunks) = 2
    /\ \E i \in DOMAIN metafile.outputs[1].imports :
            /\ metafile.outputs[1].imports[i].kind = "dynamic-import"
            /\ "external" \in DOMAIN metafile.outputs[1].imports[i]
            /\ metafile.outputs[1].imports[i].external
    /\ \E i \in DOMAIN metafile.outputs[1].imports :
            metafile.outputs[1].imports[i].kind = "import-statement"
    /\ payload.chunks[1].dynamicImports =
           <<<<"d", "/", "b", ".", "m", "a", "p", ".", "j", "s">>, <<"y", ".", "j", "s">>>>
    /\ payload.chunks[2].dynamicImports =
           <<<<"y", ".", "j", "s">>, <<"a", ".", "j", "s">>, <<"y", ".", "j", "s">>>>

\* The file transformMetafile reads for an output when outputDir names dist
FileOf(path) ==
    CASE path = <<"a", ".", "j", "s">> -> DistDir \o <<"/", "a", ".", "j", "s">>
      [] path = <<"d", "/", "b", ".", "m", "a", "p", ".", "j", "s">> ->
             DistDir \o <<"/", "b", ".", "m", "a", "p", ".", "j", "s">>
      [] path = ImagePath -> DistDir \o <<"/">> \o ImagePath

\* outputDir is given and names dist
ReadsDist ==
    /\ "outputDir" \in DOMAIN toptions
    /\ toptions.outputDir \in {<<"d", "i", "s", "t">>, <<".", "/", "d", "i", "s", "t">>,
                                DistDir \o <<"/">>}

\* The read of the file of an output fails on a disk
ReadFails(files, path) == ~ReadsDist \/ "error" \in DOMAIN files[FileOf(path)]

\* Two payloads are the same apart from the gzipSize of their assets
SameButGzipSize(p, q) ==
    /\ p.chunks = q.chunks
    /\ p.modules = q.modules
    /\ p.bundleName = q.bundleName /\ p.builtAt = q.builtAt /\ p.version = q.version
    /\ Len(p.assets) = Len(q.assets)
    /\ \A n \in DOMAIN p.assets :
            /\ p.assets[n].name = q.assets[n].name
            /\ p.assets[n].size = q.assets[n].size
            /\ p.assets[n].normalized = q.assets[n].normalized

\* C12: without outputDir every asset's gzipSize is null.  With outputDir a
\* failed read of an output's file, whatever the reason, leaves that asset's
\* gzipSize null and nothing else: the transform returns, it emits one asset
\* and one chunk for every output that is no source map, and the payload is
\* the one it returns on any other disk except for the gzipSize of the assets
\* whose file differs there.
C12_GzipDegradesToNull ==
    tpc = "done" =>
        /\ Len(payload.assets) = Len(Emitted)
        /\ Len(payload.chunks) = Len(Emitted)
        /\ "outputDir" \notin DOMAIN toptions =>
                \A n \in DOMAIN payload.assets : payload.assets[n].gzipSize = Null
        /\ \A n \in DOMAIN Emitted :
                ReadFails(disk, metafile.outputs[Emitted[n]].path) =>
                    payload.assets[n].gzipSize = Null
        /\ \A other \in Disks :
                LET readable == Transform(metafile, toptions, other)
                IN  /\ SameButGzipSize(payload, readable)
                    /\ \A n \in DOMAIN Emitted :
                            LET file == FileOf(metafile.outputs[Emitted[n]].path)
                            IN  other[file] = disk[file] =>
                                    payload.assets[n].gzipSize = readable.assets[n].gzipSize

C12_Witness ==
    /\ tpc = "done"
    /\ "outputDir" \in DOMAIN toptions
    /\ toptions.outputDir = <<"d", "i", "s", "t">>
    /\ Len(metafile.outputs) = 2
    /\ metafile.outputs[1].path = <<"a", ".", "j", "s">>
    /\ metafile.outputs[2].path = <<"d", "/", "b", ".", "m", "a", "p", ".", "j", "s">>
    /\ disk[FileOf(metafile.outputs[1].path)] = [error |-> "EACCES"]
    /\ disk[FileOf(metafile.outputs[2].path)] = [content |-> <<116, 101, 115, 116>>]
    /\ Len(payload.assets) = 2 /\ Len(payload.chunks) = 2
    /\ payload.assets[1].gzipSize = Null
    /\ payload.assets[2].gzipSize = Number(27)

\* ------------------------------------------------------------------------
\* Properties of normalizeAssetName
\* ------------------------------------------------------------------------
HexCharacters ==
    {"0", "1", "2", "3", "4", "5", "6", "7", "8", "9",
     "a", "b", "c", "d", "e", "f", "A", "B", "C", "D", "E", "F"}

\* The position of the last character c of a name, 0 when it has none
LastPosition(name, c) ==
    IF \A i \in DOMAIN name : name[i] # c THEN 0
    ELSE CHOOSE i \in DOMAIN name : name[i] = c /\ \A j \in (i + 1)..Len(name) : name[j] # c

\* The hash segments of a name: a delimiter "-" or "." inside the base name
\* (position h[1]), then 8 or more hex characters, then the final extension
\* (its "." at position h[2])
DelimitedHashes(name) ==
    {h \in (DOMAIN name) \X (DOMAIN name) :
        /\ h[1] > LastPosition(name, "/")
        /\ name[h[1]] \in {"-", "."}
        /\ h[2] = LastPosition(name, ".")
        /\ h[2] - h[1] - 1 >= 8
        /\ \A i \in (h[1] + 1)..(h[2] - 1) : name[i] \in HexCharacters
        /\ h[2] < Len(name)}

\* The final extension of a name is made of letters
LetterExtension(name) ==
    \A i \in (LastPosition(name, ".") + 1)..Len(name) :
        name[i] \in LowerLetters \cup UpperLetters

\* The name with the hex run of a hash segment replaced by "*"
Starred(name, h) == SubSeq(name, 1, h[1]) \o <<"*">> \o SubSeq(name, h[2], Len(name))

\* A path that path.join leaves as it is: no empty, "." or ".." segment, apart
\* from the empty segment before the "/" of an absolute path
PlainPath(name) ==
    /\ name # <<>>
    /\ \A i \in DOMAIN Split(name) :
            /\ Split(name)[i] \notin {<<".">>, <<".", ".">>}
            /\ Split(name)[i] = <<>> => i = 1 /\ Len(Split(name)) > 1

\* A path taken apart by dirname and basename and put together by path.join
Rejoined(name) ==
    IF dirname(name) = <<".">> THEN basename(name) ELSE join(dirname(name), basename(name))

\* C13 as stated: for every path whose base name has a run of 8 or more hex
\* characters immediately preceded by "-" or "." and immediately followed by
\* the final extension, the result is the input with exactly that run
\* replaced by "*", every other character preserved, the directory prefix
\* included.
C13_HashReplacedRestPreserved ==
    cpc = "done" =>
        \A h \in DelimitedHashes(arg) : ret = Starred(arg, h)

\* C13, amended: when the final extension is made of letters, the result is
\* the input with exactly that run replaced by "*", put together again by
\* path.join; it preserves every other character, the directory prefix
\* included, when the input is a path that path.join leaves as it is.
C13_HashReplacedPathRejoined ==
    cpc = "done" =>
        \A h \in DelimitedHashes(arg) :
            LetterExtension(arg) =>
                /\ ret = Rejoined(Starred(arg, h))
                /\ PlainPath(arg) => ret = Starred(arg, h)

C13_Witness ==
    /\ cpc = "done"
    /\ arg = <<"d", "i", "s", "t", "/", "a", "/", "m", "a", "i", "n", "-">> \o HexRun(8)
               \o <<".", "j", "s">>
    /\ ret = <<"d", "i", "s", "t", "/", "a", "/", "m", "a", "i", "n", "-", "*", ".", "j", "s">>

\* Every run of hex characters of a name is shorter than 8 characters
OnlyShortHexRuns(name) ==
    \A i \in DOMAIN name :
        i + 7 <= Len(name) => \E j \in i..(i + 7) : name[j] \notin HexCharacters

\* C14 as stated: on every name whose hex runs are all shorter than 8
\* characters the result is the input.
C14_IdentityWithoutHash ==
    cpc = "done" => (OnlyShortHexRuns(arg) => ret = arg)

\* C14, amended: on every name whose hex runs are all shorter than 8
\* characters the result holds no "*" and is the input put together again by
\* path.join; it is the input itself when the input is a path that path.join
\* leaves as it is, a bare file name among them.
C14_IdentityOnPlainPaths ==
    cpc = "done" =>
        (OnlyShortHexRuns(arg) =>
            /\ ret = Rejoined(arg)
            /\ \A i \in DOMAIN ret : ret[i] # "*"
            /\ PlainPath(arg) => ret = arg)

C14_Witness ==
    /\ cpc = "done"
    /\ arg = <<"d", "i", "s", "t", "/", "m", "a", "i", "n", "-">> \o HexRun(7) \o <<".", "j", "s">>
    /\ ret = arg

\* ------------------------------------------------------------------------
\* Properties of getGzipSize
\* ------------------------------------------------------------------------
\* The file name ends in one of the nine extensions, in lower case
HasListedExtension(fileName) ==
    \E ext \in {<<".", "c", "s", "s">>, <<".", "h", "t", "m", "l">>,
                 <<".", "j", "s", "o", "n">>, <<".", "j", "s">>, <<".", "m", "j", "s">>,
                 <<".", "s", "v", "g">>, <<".", "t", "x", "t">>, <<".", "x", "m", "l">>,
                 <<".", "x", "h", "t", "m", "l">>} :
        /\ Len(fileName) >= Len(ext)
        /\ \A i \in DOMAIN ext : fileName[Len(fileName) - Len(ext) + i] = ext[i]

\* C15: getGzipSize returns null exactly when the file name does not end in
\* one of .css .html .json .js .mjs .svg .txt .xml .xhtml, lower case only;
\* otherwise it returns a positive integer, for the empty content too.
C15_NullUnlessCompressible ==
    cpc = "done" =>
        /\ (ret = Null) <=> ~HasListedExtension(arg.fileName)
        /\ HasListedExtension(arg.fileName) =>
                /\ DOMAIN ret = {"number"}
                /\ ret.number \in Nat
                /\ ret.number > 0

C15_Witness ==
    /\ cpc = "done"
    /\ arg.fileName = <<"f", "i", "l", "e", ".", "j", "s">>
    /\ arg.content = <<>>
    /\ ret = Number(20)

\* ------------------------------------------------------------------------
\* Properties of encodeSlug and getServiceParams
\* ------------------------------------------------------------------------
\* The positions of the "/" characters of a string
Slashes(str) == {i \in DOMAIN str : str[i] = "/"}

\* C16: for an input with a "/" the result is owner, ":::", repo, "::::"
\* with owner the text before the first "/" and repo all that follows it,
\* later slashes included; for an input without "/" it is the input and
\* "::::".
C16_SlugSplitsAtFirstSlash ==
    cpc = "done" =>
        /\ Slashes(arg) = {} => ret = arg \o <<":", ":", ":", ":">>
        /\ \A first \in Slashes(arg) :
               (\A i \in Slashes(arg) : first <= i) =>
                   ret = SubSeq(arg, 1, first - 1) \o <<":", ":", ":">>
                         \o SubSeq(arg, first + 1, Len(arg)) \o <<":", ":", ":", ":">>

C16_Witness ==
    /\ cpc = "done"
    /\ arg = <<"o", "/", "r", "/">>
    /\ ret = <<"o", ":", ":", ":", "r", "/", ":", ":", ":", ":">>

\* The variable of the environment passed to getServiceParams is undefined or
\* empty
Unset(name) == name \notin DOMAIN arg \/ arg[name] = <<>>

\* C17: getServiceParams throws "GITHUB_REPOSITORY is not set" when the
\* repository is undefined or empty, whatever the commit is, and "GITHUB_SHA
\* is not set" when only the commit is undefined or empty.  When both are set
\* it returns a record with service "github-actions", slug
\* encodeSlug(repository), and buildURL
\* "<serverUrl>/<repository>/actions/runs/<runId>" when there is a run id,
\* "" when there is none.
C17_ServiceParamsOrNamedError ==
    cpc = "done" =>
        /\ Unset("GITHUB_REPOSITORY") =>
               ret = [thrown |-> MkError(<<"GITHUB_REPOSITORY is not set">>)]
        /\ ~Unset("GITHUB_REPOSITORY") /\ Unset("GITHUB_SHA") =>
               ret = [thrown |-> MkError(<<"GITHUB_SHA is not set">>)]
        /\ ~Unset("GITHUB_REPOSITORY") /\ ~Unset("GITHUB_SHA") =>
               /\ DOMAIN ret = {"returned"}
               /\ ret.returned.service = "github-actions"
               /\ ret.returned.commit = arg.GITHUB_SHA
               /\ ret.returned.slug = encodeSlug(arg.GITHUB_REPOSITORY)
               /\ ret.returned.buildURL =
                      IF Unset("GITHUB_RUN_ID") THEN <<>>
                      ELSE (IF Unset("GITHUB_SERVER_URL") THEN <<"h", "t", "t", "p", "s", ":", "/", "/", "g", "i", "t", "h", "u", "b", ".", "c", "o", "m">>
                            ELSE arg.GITHUB_SERVER_URL)
                           \o <<"/">> \o arg.GITHUB_REPOSITORY
                           \o <<"/", "a", "c", "t", "i", "o", "n", "s", "/", "r", "u", "n", "s", "/">>
                           \o arg.GITHUB_RUN_ID

C17_Witness ==
    /\ cpc = "done"
    /\ ~Unset("GITHUB_REPOSITORY") /\ ~Unset("GITHUB_SHA")
    /\ ~Unset("GITHUB_RUN_ID") /\ ~Unset("GITHUB_SERVER_URL")
    /\ arg.GITHUB_REPOSITORY = <<"o", "w", "n", "e", "r", "/", "r", "e", "p", "o">>
    /\ DOMAIN ret = {"returned"}
    /\ ret.returned.slug = <<"o", "w", "n", "e", "r", ":", ":", ":", "r", "e", "p", "o", ":", ":", ":", ":">>
    /\ ret.returned.buildURL = <<"h", "t", "t", "p", "s", ":", "/", "/", "g", "h", "e", ".", "i", "o", "/", "o", "w", "n", "e", "r", "/", "r", "e", "p", "o", "/", "a", "c", "t", "i", "o", "n", "s", "/", "r", "u", "n", "s", "/", "9", "9">>

\* ------------------------------------------------------------------------
\* Properties of fetchOidcToken: the variables it reads
\* ------------------------------------------------------------------------
\* A variable of the environment of fetchOidcToken is set
IsSet(name) == env[name] # Undefined /\ env[name] # ""

\* The first answer is ok and its body is JSON with a value
ValueAt1 ==
    /\ OkAt(1)
    /\ responses[1].response.body.json
    /\ "value" \in DOMAIN responses[1].response.body.data
    /\ responses[1].response.body.data.value # ""

\* C18: with ACTIONS_ID_TOKEN_REQUEST_URL and ACTIONS_ID_TOKEN_REQUEST_TOKEN
\* set, fetchOidcToken makes exactly one request, to
\* "<ACTIONS_ID_TOKEN_REQUEST_URL>&audience=https://codecov.io" with the
\* header "Authorization: Bearer <ACTIONS_ID_TOKEN_REQUEST_TOKEN>", and when
\* the fetcher answers it ok with JSON {value: v} it resolves to v.
C18_BearerIsRequestToken ==
    (IsSet("ACTIONS_ID_TOKEN_REQUEST_URL") /\ IsSet("ACTIONS_ID_TOKEN_REQUEST_TOKEN")
     /\ opc # "idle") =>
        /\ Len(calls) = 1
        /\ calls[1].url = <<env.ACTIONS_ID_TOKEN_REQUEST_URL, "&audience=", "https://codecov.io">>
        /\ calls[1].headers.Authorization = <<"Bearer ", env.ACTIONS_ID_TOKEN_REQUEST_TOKEN>>
        /\ (opc = "done" /\ ValueAt1) =>
               token = [state |-> "fulfilled", value |-> responses[1].response.body.data.value]

\* C19: fetchOidcToken rejects with a message containing
\* "ACTIONS_ID_TOKEN_REQUEST_URL is not set" when the token-request URL is
\* missing, and with "ACTIONS_ID_TOKEN_REQUEST_TOKEN is not set" when the URL
\* is set and ACTIONS_ID_TOKEN_REQUEST_TOKEN is missing; in both cases no
\* request reaches the fetcher.
C19_MissingVariableNamed ==
    opc # "idle" =>
        /\ ~IsSet("ACTIONS_ID_TOKEN_REQUEST_URL") =>
               /\ opc = "done" /\ calls = <<>>
               /\ token.state = "rejected"
               /\ Contains(token.error.message, "ACTIONS_ID_TOKEN_REQUEST_URL is not set")
        /\ (IsSet("ACTIONS_ID_TOKEN_REQUEST_URL") /\ ~IsSet("ACTIONS_ID_TOKEN_REQUEST_TOKEN")) =>
               /\ opc = "done" /\ calls = <<>>
               /\ token.state = "rejected"
               /\ Contains(token.error.message, "ACTIONS_ID_TOKEN_REQUEST_TOKEN is not set")

\* ------------------------------------------------------------------------
\* Properties of runUpload
\* ------------------------------------------------------------------------
\* The place of a request in the order of the steps: the token request, the
\* presigned-URL POST, the payload PUT
StepOf(request) ==
    CASE request.method = "GET" -> 1
      [] request.method = "POST" -> 2
      [] request.method = "PUT" -> 3

Logged(line) == \E i \in DOMAIN log : log[i] = line

\* C20: runUpload takes its steps in the order CI check, token fetch,
\* service parameters, presigned-URL POST, payload PUT, and stops at the first
\* that fails.  Outside GitHub Actions it throws "--upload is only supported
\* in GitHub Actions" and no request is made; when the token fetch fails no
\* POST and no PUT is made; when the upload result has success false it
\* throws "Upload failed: <error>"; "Upload successful" is logged only after
\* a PUT was answered ok.
C20_RunStepsInOrder ==
    /\ (env.GITHUB_ACTIONS # "true" /\ rpc # "idle") =>
           /\ rpc = "done"
           /\ rpromise = [state |-> "rejected",
                          error |-> MkError(<<"--upload is only supported in GitHub Actions">>)]
           /\ calls = <<>>
           /\ log = <<>>
    /\ calls # <<>> =>
           /\ env.GITHUB_ACTIONS = "true"
           /\ calls[1].method = "GET"
           /\ \A i \in DOMAIN calls : i > 1 => calls[i].method # "GET"
    /\ \A i, j \in DOMAIN calls : i < j => StepOf(calls[i]) <= StepOf(calls[j])
    /\ Logged("Gathering service parameters...") => token.state = "fulfilled"
    /\ Posts > 0 =>
           /\ token.state = "fulfilled"
           /\ Logged("Gathering service parameters...")
           /\ Logged("Uploading bundle stats to Codecov...")
    /\ token.state = "rejected" =>
           /\ Posts = 0 /\ Puts = 0
           /\ ~Logged("Gathering service parameters...")
           /\ rpc = "done" => rpromise = [state |-> "rejected", error |-> token.error]
    /\ (rpc = "done" /\ pc = "done" /\ ~outcome.value.success) =>
           /\ rpromise.state = "rejected"
           /\ rpromise.error.kind = "Error"
           /\ rpromise.error.message = <<"Upload failed: ">> \o outcome.value.error
           /\ ~Logged("Upload successful")
    /\ Logged("Upload successful") =>
           /\ rpc = "done"
           /\ rpromise.state = "fulfilled"
           /\ calls[Len(calls)].method = "PUT"
           /\ OkAt(Len(calls))
           /\ log[Len(log)] = "Upload successful"

C20_Witness ==
    /\ rpc = "done"
    /\ Len(calls) = 4
    /\ calls[1].method = "GET" /\ calls[2].method = "POST"
    /\ calls[3].method = "POST" /\ calls[4].method = "PUT"
    /\ FailedAt(2)
    /\ log = <<"Fetching OIDC token...", "Gathering service parameters...",
               "Uploading bundle stats to Codecov...", "Upload successful">>
    /\ rpromise.state = "fulfilled"

\* ------------------------------------------------------------------------
\* Properties of the chunk names
\* ------------------------------------------------------------------------
\* The part of a path after its last "/"
LastSegment(path) ==
    LET slashes == {i \in DOMAIN path : path[i] = "/"}
        from == IF slashes = {} THEN 1
                ELSE 1 + CHOOSE i \in slashes : \A j \in slashes : j <= i
    IN  [i \in 1..(Len(path) - from + 1) |-> path[from + i - 1]]

\* A name without its final extension: without its last "." and the
\* characters after it, when there are any
WithoutFinalExtension(name) ==
    LET dots == {i \in DOMAIN name : name[i] = "." /\ i < Len(name)}
    IN  IF dots = {} THEN name
        ELSE LET last == CHOOSE i \in dots : \A j \in dots : j <= i
             IN  IF \E i \in DOMAIN name : i > last /\ name[i] = "." THEN name
                 ELSE [i \in 1..(last - 1) |-> name[i]]

\* C21: every chunk's names list has exactly one element; for a chunk with
\* entry true it is the base name of the output's entryPoint without its
\* final extension, for a chunk with entry false the base name of the output
\* path without its final extension.
C21_ChunkNameFromEntryPoint ==
    tpc = "done" =>
        \A n \in DOMAIN payload.chunks :
            /\ n \in DOMAIN Emitted
            /\ Len(payload.chunks[n].names) = 1
            /\ LET output == metafile.outputs[Emitted[n]]
               IN  payload.chunks[n].names[1] =
                       IF payload.chunks[n].entry
                       THEN WithoutFinalExtension(LastSegment(output.entryPoint))
                       ELSE WithoutFinalExtension(LastSegment(output.path))

\* The same statement for the outputs whose entryPoint is not the empty string
C21_ChunkNameFromNonEmptyEntryPoint ==
    tpc = "done" =>
        \A n \in DOMAIN payload.chunks :
            /\ n \in DOMAIN Emitted
            /\ Len(payload.chunks[n].names) = 1
            /\ LET output == metafile.outputs[Emitted[n]]
               IN  ~("entryPoint" \in DOMAIN output /\ output.entryPoint = <<>>) =>
                       payload.chunks[n].names[1] =
                           IF payload.chunks[n].entry
                           THEN WithoutFinalExtension(LastSegment(output.entryPoint))
                           ELSE WithoutFinalExtension(LastSegment(output.path))

\* ------------------------------------------------------------------------
\* Properties of the retry delays and the attempt budgets
\* ------------------------------------------------------------------------
\* The number of call i among the attempts of its phase: 1, 2 or 3
AttemptNo(i) == Cardinality({j \in 1..i : calls[j].method = calls[i].method})

\* The calls that are no first attempt of their phase
RetryCalls(method) == {i \in Index(method) : AttemptNo(i) > 1}

\* The delay() calls made so far: those that elapsed and the one awaited
Waits == Len(delays) + (IF pc = "awaitDelay" THEN 1 ELSE 0)

\* The delay the caller configured: retryDelayMs, 1000 without it
ConfiguredDelay == IF "retryDelayMs" \in DOMAIN options THEN options.retryDelayMs ELSE 1000

\* C22: within a phase exactly one delay of the configured duration lies
\* between each non-ok answer and the next attempt; there is no delay before
\* a first attempt, after an ok answer or after the third failed attempt, so
\* a phase that fails three times waited twice before it raises
\* "Request failed: <status> <statusText>".
C22_DelayBetweenAttempts ==
    /\ \A i \in DOMAIN delays : delays[i] = ConfiguredDelay
    /\ Len(delays) = Cardinality(RetryCalls("POST")) + Cardinality(RetryCalls("PUT"))
    /\ \A i \in DOMAIN calls : AttemptNo(i) > 1 => FailedAt(i - 1)
    /\ Waits = Cardinality({i \in DOMAIN responses : FailedAt(i) /\ AttemptNo(i) < 3})
    /\ pc = "awaitDelay" <=>
            /\ Len(responses) = Len(calls)
            /\ calls # <<>>
            /\ FailedAt(Len(calls))
            /\ AttemptNo(Len(calls)) < 3
    /\ \A i \in DOMAIN responses : (FailedAt(i) /\ AttemptNo(i) = 3) =>
            /\ pc = "done"
            /\ i = Len(calls)
            /\ Cardinality(RetryCalls(calls[i].method)) = 2
            /\ outcome.value.error =
                   <<"Request failed: ", ToString(responses[i].response.status), " ",
                     responses[i].response.statusText>>

C22_Witness ==
    /\ pc = "done"
    /\ "retryDelayMs" \notin DOMAIN options
    /\ Len(calls) = 5
    /\ FailedAt(1) /\ OkAt(2) /\ FailedAt(3) /\ FailedAt(4) /\ FailedAt(5)
    /\ calls[3].method = "PUT"
    /\ delays = <<1000, 1000, 1000>>
    /\ outcome.value.error = <<"Request failed: ", "500", " ", "">>

\* ------------------------------------------------------------------------
\* Properties of the fallback of normalizeAssetName
\* ------------------------------------------------------------------------
\* Position i of a name lies in a run of 8 or more hex characters
InLongHexRun(name, i) ==
    \E a \in 1..i : \E b \in i..Len(name) :
        /\ b - a + 1 >= 8
        /\ \A j \in a..b : name[j] \in HexCharacters

\* A name with every maximal run of 8 or more hex characters replaced by a
\* single "*": the characters outside the runs stay, and the first position
\* of each run gives the "*"
StarRuns(name) ==
    LET kept == Ascending({i \in DOMAIN name :
                    \/ ~InLongHexRun(name, i)
                    \/ i = 1
                    \/ name[i - 1] \notin HexCharacters})
    IN  [n \in DOMAIN kept |->
            IF InLongHexRun(name, kept[n]) THEN "*" ELSE name[kept[n]]]

\* A directory and a base name put together as the function does it
Qualified(dir, base) == IF dir = <<".">> THEN base ELSE join(dir, base)

\* C23 as stated: when the base name has no run of 8 or more hex characters
\* that is preceded by "-" or "." and followed by the final extension, every
\* maximal run of 8 or more hex characters of the base name, and none of the
\* directory part, is replaced by one "*"; when it has one, the fallback is
\* not applied and the other hex runs of the base name stay.
C23_FallbackWithoutDelimitedHash ==
    cpc = "done" =>
        LET hashes == DelimitedHashes(basename(arg))
        IN  /\ hashes = {} =>
                ret = Qualified(dirname(arg), StarRuns(basename(arg)))
            /\ \A h \in hashes :
                ret = Qualified(dirname(arg), Starred(basename(arg), h))

\* C23, amended: the final extension is "." and letters of either case.
\* When the base name has no such delimited hash, a final extension with a
\* digit included, every maximal run of 8 or more hex characters of the base
\* name, and none of the directory part, is replaced by one "*"; when it has
\* one, the fallback is not applied and the other hex runs stay.
C23_FallbackWithoutLetterExtensionHash ==
    cpc = "done" =>
        LET base == basename(arg)
            hashes == {h \in DelimitedHashes(base) : LetterExtension(base)}
        IN  /\ hashes = {} => ret = Qualified(dirname(arg), StarRuns(base))
            /\ \A h \in hashes : ret = Qualified(dirname(arg), Starred(base, h))

C23_Witness ==
    /\ cpc = "done"
    /\ arg = <<"d", "e", "a", "d", "b", "e", "e", "f", "0", "0", "/">>
               \o <<"d", "e", "a", "d", "b", "e", "e", "f", "0", "_">> \o HexRun(8)
               \o <<".", "j", "s">>
    /\ ret = <<"d", "e", "a", "d", "b", "e", "e", "f", "0", "0", "/",
               "*", "_", "*", ".", "j", "s">>

\* ------------------------------------------------------------------------
\* Properties of normalizeAssetName applied again
\* ------------------------------------------------------------------------
\* The base name of a path still holds a run of 8 or more hex characters
HashLeft(name) == \E i \in DOMAIN basename(name) : InLongHexRun(basename(name), i)

C25_BudgetPerPhase ==
    /\ Posts <= 3
    /\ Puts <= 3
    /\ Len(calls) <= 6
    /\ Len(calls) = Posts + Puts
    /\ calls # <<>> => retries = 3 - (AttemptNo(Len(calls)) - 1)
    /\ \A i \in Index("PUT") : AttemptNo(i) = 1 => i = Posts + 1

C25_Witness ==
    /\ pc = "done"
    /\ Posts = 3 /\ Puts = 3
    /\ FailedAt(1) /\ FailedAt(2) /\ OkAt(3)
    /\ FailedAt(4) /\ FailedAt(5) /\ OkAt(6)
    /\ Succeeded

\* C26: a returned result with success true has presignedUrl, the url that
\* phase 1 returned, and no error, and is returned only after a PUT was
\* answered ok; a result with success false has error, a string, and no
\* presignedUrl, also when phase 1 succeeded and only phase 2 failed.
C26_ResultShape ==
    pc = "done" =>
        /\ outcome.state = "fulfilled"
        /\ outcome.value.success \in BOOLEAN
        /\ outcome.value.success =>
                /\ DOMAIN outcome.value = {"success", "presignedUrl"}
                /\ Posts >= 1
                /\ OkAt(Posts) /\ UrlAt(Posts)
                /\ outcome.value.presignedUrl = responses[Posts].response.body.data.url
                /\ calls[Len(calls)].method = "PUT"
                /\ OkAt(Len(calls))
        /\ ~outcome.value.success =>
                /\ DOMAIN outcome.value = {"success", "error"}
                /\ outcome.value.error \in Seq(STRING)

C26_Witness ==
    /\ pc = "done"
    /\ OkAt(1) /\ UrlAt(1)
    /\ Puts = 3
    /\ FailedAt(4)
    /\ presignedUrl = PRESIGNED_URL
    /\ outcome.value = [success |-> FALSE,
                        error |-> <<"Request failed: ", "403", " ", "Forbidden">>]

\* The text of a rejection: the message of an Error, String(err) of another
\* value
RejectionText(err) ==
    CASE err.kind = "Error" -> err.message
      [] err.kind = "string" -> err.message
      [] err.kind = "number" -> <<ToString(err.num)>>

\* C27: a fetcher call that rejects is not retried: in either phase no
\* request and no delay follows the rejection, and the result is
\* {success: false, error: <the rejection's message>}.
C27_RejectionNotRetried ==
    \A i \in DOMAIN responses : responses[i].settled = "rejected" =>
        /\ i = Len(calls)
        /\ i = Len(responses)
        /\ pc = "done"
        /\ Len(delays) = Cardinality(RetryCalls("POST")) + Cardinality(RetryCalls("PUT"))
        /\ outcome = [state |-> "fulfilled",
                      value |-> [success |-> FALSE,
                                 error |-> RejectionText(responses[i].error)]]

C27_Witness ==
    /\ pc = "done"
    /\ Len(calls) = 3
    /\ OkAt(1) /\ FailedAt(2)
    /\ calls[3].method = "PUT"
    /\ responses[3].settled = "rejected"
    /\ responses[3].error = MkError(<<"fetch failed">>)
    /\ delays = <<1000>>
    /\ outcome.value = [success |-> FALSE, error |-> <<"fetch failed">>]

\* C29: when every fetcher call and every delay completes, every invocation
\* returns a result, whatever the answers are, after at most 6 requests and
\* at most 4 delays.
C29_Terminates ==
    /\ <>(pc = "done" /\ outcome.state = "fulfilled")
    /\ [](Len(calls) <= 6 /\ Len(delays) <= 4 /\ Waits <= 4)

C29_Witness ==
    /\ pc = "done"
    /\ outcome.state = "fulfilled"
    /\ Len(calls) = 6
    /\ Len(delays) = 4
    /\ \A i \in {1, 2, 4, 5, 6} : FailedAt(i)

\* ------------------------------------------------------------------------
\* Properties of two invocations
\* ------------------------------------------------------------------------
\* The attempts of the last call's phase, in a fetcher's log
AttemptsOfPhase(requests) ==
    Cardinality({j \in DOMAIN requests : requests[j].method = requests[Len(requests)].method})

\* What an invocation's locals say about its own requests alone: at most 3
\* requests in each phase, and a budget of 3 less the retries of the phase
\* made so far
OwnBudget(l) ==
    /\ Cardinality({j \in DOMAIN l.calls : l.calls[j].method = "POST"}) <= 3
    /\ Cardinality({j \in DOMAIN l.calls : l.calls[j].method = "PUT"}) <= 3
    /\ l.calls # <<>> => l.retries = 3 - (AttemptsOfPhase(l.calls) - 1)

Init == UploadInit /\ NetInit /\ OidcOff /\ TransformOff /\ CallOff /\ RunOff /\ AgainOff

Next ==
    \/ uploadBundleStats
    \/ FetcherResolves
    \/ FetcherRejects
    \/ DelayElapses
    \/ JsonSettles

Spec == Init /\ [][Next]_vars

\* One invocation of fetchOidcToken against an arbitrary fetcher
InitOidc == OidcInit /\ NetInit /\ UploadOff /\ TransformOff /\ CallOff /\ RunOff /\ AgainOff

NextOidc ==
    \/ fetchOidcToken
    \/ OidcFetcherResolves
    \/ OidcFetcherRejects
    \/ OidcJsonSettles

SpecOidc == InitOidc /\ [][NextOidc]_vars

\* One invocation of transformMetafile on an arbitrary metafile
InitTransform == TransformInit /\ NetInit /\ UploadOff /\ OidcOff /\ CallOff /\ RunOff /\ AgainOff

NextTransform == transformMetafile

SpecTransform == InitTransform /\ [][NextTransform]_vars

\* One invocation of runUpload in an arbitrary environment against an
\* arbitrary fetcher
InitRun ==
    /\ RunInit /\ NetInit /\ UploadOff /\ TransformOff /\ CallOff
    /\ OidcStart("off", RunEnvSet)
    /\ AgainOff

NextRun ==
    \/ runUpload
    \/ RunTokenSettles
    \/ RunUploadSettles
    \/ fetchOidcToken
    \/ OidcFetcherResolves
    \/ OidcFetcherRejects
    \/ OidcJsonSettles
    \/ uploadBundleStats
    \/ FetcherResolves
    \/ FetcherRejects
    \/ DelayElapses
    \/ JsonSettles

SpecRun == InitRun /\ [][NextRun]_vars

\* One call of normalizeAssetName on an arbitrary asset name
InitNormalize == NormalizeInit /\ NetInit /\ UploadOff /\ OidcOff /\ TransformOff /\ RunOff /\ AgainOff

NextNormalize == CallNormalizeAssetName

SpecNormalize == InitNormalize /\ [][NextNormalize]_vars

\* One call of encodeSlug on an arbitrary slug
InitSlug == SlugInit /\ NetInit /\ UploadOff /\ OidcOff /\ TransformOff /\ RunOff /\ AgainOff

NextSlug == CallEncodeSlug

SpecSlug == InitSlug /\ [][NextSlug]_vars

\* One call of getServiceParams on an arbitrary environment
InitServiceParams == ServiceParamsInit /\ NetInit /\ UploadOff /\ OidcOff /\ TransformOff /\ RunOff /\ AgainOff

NextServiceParams == CallGetServiceParams

SpecServiceParams == InitServiceParams /\ [][NextServiceParams]_vars

\* One call of getGzipSize on an arbitrary file name and content
InitGzip == GzipInit /\ NetInit /\ UploadOff /\ OidcOff /\ TransformOff /\ RunOff /\ AgainOff

NextGzip == CallGetGzipSize

SpecGzip == InitGzip /\ [][NextGzip]_vars

\* One invocation of transformMetafile with an output directory on a disk
InitTransformDisk == TransformDiskInit /\ NetInit /\ UploadOff /\ OidcOff /\ CallOff /\ RunOff /\ AgainOff

SpecTransformDisk == InitTransformDisk /\ [][NextTransform]_vars

\* Two invocations of uploadBundleStats that take turns at their awaits, and
\* two calls of transformMetafile, one after the other
InitPair == PairInit /\ NetInit /\ OidcOff /\ CallOff /\ RunOff

NextPair ==
    \/ uploadBundleStats
    \/ PairFetcherResolves
    \/ PairFetcherRejects
    \/ DelayElapses
    \/ JsonSettles
    \/ ResumeOther
    \/ transformMetafile
    \/ PairTransformAgain

SpecPair == InitPair /\ [][NextPair]_vars

\* One invocation of uploadBundleStats whose promises settle: the caller
\* makes the call, every fetcher call is answered or rejects, every delay
\* elapses and response.json() settles
Settling ==
    /\ WF_vars(uploadBundleStats)
    /\ WF_vars(FetcherResolves \/ FetcherRejects)
    /\ WF_vars(DelayElapses)
    /\ WF_vars(JsonSettles)

SpecSettling == Spec /\ Settling

====
